---- MODULE Spec2Model ----
(***************************************************************************)
(* A model of the http-parse crate: the byte source and its BufReader, the *)
(* message parser (start line, header loop, body framing), the message     *)
(* types with their header operations and serializer, and the URL type     *)
(* with its builder, parser and accessors.                                 *)
(*                                                                         *)
(* A byte is a one-character string; a byte string (Vec<u8>, String, &str) *)
(* is a sequence of bytes.  All text in the model is ASCII, for which      *)
(* String::from_utf8_lossy is the identity.                                *)
(***************************************************************************)
EXTENDS Integers, Sequences, FiniteSets, TLC

VARIABLES
    input,          \* the bytes the byte source holds for this parse
    source,         \* how the source delivers them: [src, eof]
    kind,           \* "request" (parse_request) or "response" (parse_response)
    include_data,   \* the include_data argument: TRUE for request()/response()
    reader,         \* the BufReader over the source: buffer, undelivered reads
    pc,             \* the parser's position: start, headers, body, chunks, done
    msg,            \* the message value under construction / returned
    result,         \* none | ok | err | panic | blocked
    error,          \* the kind of the error returned, "" when none
    head,           \* the message as it stood when the header loop ended
    wire,           \* the last output of into_bytes, as [set, panic, bytes]
    ops,            \* how many put_header / add_data calls were applied
    builder,        \* the HttpRequestBuilder / HttpResponseBuilder in use
    url_pc,         \* the URL under work: idle, build, built, text, parsed
    url_builder,    \* the HttpUrlBuilder in use
    http_url,       \* the HttpUrl returned by HttpUrlBuilder::build
    url_text,       \* the text given by to_string / handed to HttpUrl::parse
    url_parsed,     \* the result of HttpUrl::parse, as [err, url]
    url_view,       \* the last address() and file() results, as [of, address, file]
    compare,        \* a StatusCode, a usize and the results of s == n and n == s
    byte_buffer,    \* the ByteBuffer being read, as [inner, index]
    reads,          \* the read calls made on it, as [len, n, data] each
    returned        \* the messages earlier parse calls on this parser returned

msgvars == <<input, source, kind, include_data, reader, pc, msg, result, error,
             head, wire, ops, builder>>
urlvars == <<url_pc, url_builder, http_url, url_text, url_parsed, url_view>>
auxvars == <<compare, byte_buffer, reads, returned>>
vars == <<msgvars, urlvars, auxvars>>

-----------------------------------------------------------------------------
(* Bytes and byte classes *)

CR == "\r"
LF == "\n"
SP == " "
HT == "\t"
COLON == ":"

\* (byte as char).is_whitespace() and str::trim: Unicode White_Space.  Of the
\* bytes the model uses these are SP, HT, LF, CR.
Whitespace == {SP, HT, LF, CR}

\* <[u8]>::trim_ascii: u8::is_ascii_whitespace (SP, HT, LF, FF, CR).
AsciiWhitespace == {SP, HT, LF, CR}

UpperLetters == <<"A","B","C","D","E","F","G","H","I","J","K","L","M",
                  "N","O","P","Q","R","S","T","U","V","W","X","Y","Z">>
LowerLetters == <<"a","b","c","d","e","f","g","h","i","j","k","l","m",
                  "n","o","p","q","r","s","t","u","v","w","x","y","z">>
Digits == <<"0","1","2","3","4","5","6","7","8","9">>
HexUpper == <<"0","1","2","3","4","5","6","7","8","9","A","B","C","D","E","F">>
HexLower == <<"0","1","2","3","4","5","6","7","8","9","a","b","c","d","e","f">>

Min(S) == CHOOSE x \in S : \A y \in S : x <= y
Max(S) == CHOOSE x \in S : \A y \in S : x >= y

\* Index of the first element of s equal to b, 0 when there is none.
IndexOf(s, b) ==
    LET I == {i \in 1..Len(s) : s[i] = b}
    IN  IF I = {} THEN 0 ELSE Min(I)

\* Index of b in the table t (1-based), 0 when absent.
TableIndex(t, b) == IndexOf(t, b)

DropFirst(s, n) == SubSeq(s, n + 1, Len(s))

StartsWith(s, p) == Len(s) >= Len(p) /\ SubSeq(s, 1, Len(p)) = p

\* str::contains
Contains(s, p) ==
    \E i \in 1..(Len(s) + 1) : i + Len(p) - 1 <= Len(s)
                               /\ SubSeq(s, i, i + Len(p) - 1) = p

\* Trimming both ends by a byte class.
TrimBy(s, W) ==
    LET K == {i \in 1..Len(s) : s[i] \notin W}
    IN  IF K = {} THEN <<>> ELSE SubSeq(s, Min(K), Max(K))

trim_ascii(s) == TrimBy(s, AsciiWhitespace)
trim(s) == TrimBy(s, Whitespace)

\* char/str to_lowercase on ASCII
LowerOf ==
    [b \in {UpperLetters[i] : i \in 1..Len(UpperLetters)} |->
        LowerLetters[TableIndex(UpperLetters, b)]]
LowerByte(b) == IF b \in DOMAIN LowerOf THEN LowerOf[b] ELSE b
to_lowercase(s) == [i \in 1..Len(s) |-> LowerByte(s[i])]

-----------------------------------------------------------------------------
(* Number conversions of the standard library, computed digit by digit *)

RECURSIVE DigitsValue(_, _, _)
\* Value of the digit string s in the given radix, -1 if a byte is no digit.
\* table maps a digit byte to its value + 1.
DigitsValue(s, radix, acc) ==
    IF s = <<>> THEN acc
    ELSE LET u == TableIndex(HexUpper, Head(s))
             l == TableIndex(HexLower, Head(s))
             d == IF u > 0 THEN u - 1 ELSE l - 1
         IN  IF d < 0 \/ d >= radix THEN -1
             ELSE DigitsValue(Tail(s), radix, acc * radix + d)

\* usize::MAX written in decimal (64-bit usize)
USIZE_MAX_TEXT ==
    <<"1","8","4","4","6","7","4","4","0","7","3","7","0","9","5","5","1","6","1","5">>

RECURSIVE SkipZeros(_)
SkipZeros(s) == IF s # <<>> /\ Head(s) = "0" THEN SkipZeros(Tail(s)) ELSE s

RECURSIVE DigitsGreater(_, _)
\* For digit strings of equal length: a denotes a larger number than b.
DigitsGreater(a, b) ==
    IF a = <<>> THEN FALSE
    ELSE LET x == TableIndex(HexUpper, Head(a))
             y == TableIndex(HexUpper, Head(b))
         IN  x > y \/ (x = y /\ DigitsGreater(Tail(a), Tail(b)))

\* The checked multiply-and-add of from_str_radix overflows usize: the number
\* written by the digits d exceeds usize::MAX (sixteen hex digits always fit).
Overflows(d, radix) ==
    LET z == SkipZeros(d)
        most == IF radix = 10 THEN Len(USIZE_MAX_TEXT) ELSE 16
    IN  \/ Len(z) > most
        \/ radix = 10 /\ Len(z) = most /\ DigitsGreater(z, USIZE_MAX_TEXT)

\* usize::from_str_radix(s, radix): an optional leading '+', then one or more
\* digits.  -1 stands for Err(ParseIntError).
from_str_radix(s, radix) ==
    LET d == IF s # <<>> /\ Head(s) = "+" THEN Tail(s) ELSE s
    IN  IF d = <<>> THEN -1
        ELSE IF \E i \in 1..Len(d) :
                    LET u == TableIndex(HexUpper, d[i])
                        l == TableIndex(HexLower, d[i])
                    IN  (IF u > 0 THEN u ELSE l) \notin 1..radix
             THEN -1
        ELSE IF Overflows(d, radix) THEN -1
        ELSE DigitsValue(d, radix, 0)

\* str::parse::<usize>()
parse_usize(s) == from_str_radix(s, 10)

RECURSIVE FormatRadix(_, _, _)
FormatRadix(n, radix, table) ==
    IF n < radix THEN <<table[n + 1]>>
    ELSE FormatRadix(n \div radix, radix, table) \o <<table[(n % radix) + 1]>>

\* format!("{}", n) for usize
fmt_decimal(n) == FormatRadix(n, 10, Digits)
\* format!("{:X}", n)
fmt_upper_hex(n) == FormatRadix(n, 16, HexUpper)

-----------------------------------------------------------------------------
(* Protocol constants and token texts *)

H_TRANSFER_ENCODING == <<"T","r","a","n","s","f","e","r","-","E","n","c","o","d","i","n","g">>
H_CONTENT_LENGTH == <<"C","o","n","t","e","n","t","-","L","e","n","g","t","h">>
T_identity == <<"i","d","e","n","t","i","t","y">>
T_chunked == <<"c","h","u","n","k","e","d">>
T_GET == <<"G","E","T">>
T_POST == <<"P","O","S","T">>
T_PUT == <<"P","U","T">>
T_HEAD == <<"H","E","A","D">>
T_OPTIONS == <<"O","P","T","I","O","N","S">>
T_DELETE == <<"D","E","L","E","T","E">>
T_TRACE == <<"T","R","A","C","E">>
T_PATCH == <<"P","A","T","C","H">>
T_CONNECT == <<"C","O","N","N","E","C","T">>
T_HTTP10 == <<"H","T","T","P","/","1",".","0">>
T_HTTP11 == <<"H","T","T","P","/","1",".","1">>
T_HTTP2 == <<"H","T","T","P","/","2">>
T_HTTP3 == <<"H","T","T","P","/","3">>
M_OK == <<"O","K">>
M_NOT_FOUND == <<"N","o","t",SP,"F","o","u","n","d">>

\* impl Display for HttpMethod
MethodText(m) ==
    CASE m = "Post" -> T_POST
      [] m = "Get" -> T_GET
      [] m = "Put" -> T_PUT
      [] m = "Trace" -> T_TRACE
      [] m = "Head" -> T_HEAD
      [] m = "Options" -> T_OPTIONS
      [] m = "Patch" -> T_PATCH
      [] m = "Delete" -> T_DELETE
      [] m = "Connect" -> T_CONNECT

\* impl Display for HttpVersion
VersionText(v) ==
    CASE v = "Http10" -> T_HTTP10
      [] v = "Http11" -> T_HTTP11
      [] v = "Http2" -> T_HTTP2
      [] v = "Http3" -> T_HTTP3

-----------------------------------------------------------------------------
(* The byte source and the BufReader wrapped around it *)

\* One read the source will answer: some bytes, or an I/O error.
Piece(bytes) == [err |-> FALSE, data |-> bytes]
IoError == [err |-> TRUE, data |-> <<>>]

\* HttpParser::from_reader: an empty buffer over the source.  src are the
\* reads the source will answer in order; once they are used up the source
\* signals end-of-data (eof) or never answers again (~eof).
from_reader(src, eof) == [buf |-> <<>>, src |-> src, eof |-> eof, reads |-> 0]

\* The bytes not yet consumed by the parser: buffered and undelivered.
RECURSIVE Undelivered(_)
Undelivered(src) ==
    IF src = <<>> THEN <<>> ELSE Head(src).data \o Undelivered(Tail(src))
Remaining(r) == r.buf \o Undelivered(r.src)

\* BufReader::fill_buf: reads from the source only when the buffer is empty.
\* st: "ok", "ioerr" (the source returned Err), "block" (no answer, ever).
fill_buf(r) ==
    IF r.buf # <<>> THEN [r |-> r, st |-> "ok"]
    ELSE IF r.src = <<>>
         THEN [r |-> [r EXCEPT !.reads = @ + 1],
               st |-> IF r.eof THEN "ok" ELSE "block"]
    ELSE IF Head(r.src).err
         THEN [r |-> [r EXCEPT !.src = Tail(@), !.reads = @ + 1], st |-> "ioerr"]
    ELSE [r |-> [r EXCEPT !.buf = Head(r.src).data, !.src = Tail(@),
                          !.reads = @ + 1],
          st |-> "ok"]

\* BufReader::consume
consume(r, n) == [r EXCEPT !.buf = DropFirst(@, IF n < Len(@) THEN n ELSE Len(@))]

RECURSIVE read_until(_, _)
\* BufRead::read_until(delim, out): appends up to and including delim, or up
\* to end-of-data.  The bytes appended before an error stay consumed.
read_until(r, delim) ==
    LET f == fill_buf(r)
        av == f.r.buf
        i == IndexOf(av, delim)
    IN  IF f.st # "ok" THEN [r |-> f.r, st |-> f.st, out |-> <<>>]
        ELSE IF av = <<>> THEN [r |-> f.r, st |-> "ok", out |-> <<>>]
        ELSE IF i > 0
             THEN [r |-> consume(f.r, i), st |-> "ok", out |-> SubSeq(av, 1, i)]
        ELSE LET rest == read_until(consume(f.r, Len(av)), delim)
             IN  [rest EXCEPT !.out = av \o @]

RECURSIVE read_exact(_, _)
\* Read::read_exact on the BufReader: exactly n bytes, or "eof"
\* (ErrorKind::UnexpectedEof) when the source ends first.
read_exact(r, n) ==
    IF n = 0 THEN [r |-> r, st |-> "ok", out |-> <<>>]
    ELSE LET f == fill_buf(r)
             av == f.r.buf
             k == IF n < Len(av) THEN n ELSE Len(av)
         IN  IF f.st # "ok" THEN [r |-> f.r, st |-> f.st, out |-> <<>>]
             ELSE IF av = <<>> THEN [r |-> f.r, st |-> "eof", out |-> <<>>]
             ELSE LET rest == read_exact(consume(f.r, k), n - k)
                  IN  [rest EXCEPT !.out = SubSeq(av, 1, k) \o @]

\* HttpParser::skip_matching, f given as the set of bytes it accepts: one
\* fill_buf, then consume up to the first buffered byte that does not satisfy
\* f; when every buffered byte satisfies f the position is None, used is 0
\* and the loop returns at once.
skip_matching(r, f) ==
    LET fb == fill_buf(r)
        av == fb.r.buf
        N == {i \in 1..Len(av) : av[i] \notin f}
        used == IF N = {} THEN 0 ELSE Min(N) - 1
    IN  IF fb.st # "ok" THEN [r |-> fb.r, st |-> fb.st, n |-> 0]
        ELSE [r |-> consume(fb.r, used), st |-> "ok", n |-> used]

\* HttpParser::is_line_end
is_line_end(r) ==
    IF Len(r.buf) >= 2
    THEN [r |-> r, st |-> "ok", val |-> StartsWith(r.buf, <<CR, LF>>)]
    ELSE LET f == fill_buf(r)
         IN  [r |-> f.r, st |-> f.st,
              val |-> f.st = "ok" /\ (f.r.buf = <<>> \/ StartsWith(f.r.buf, <<CR, LF>>))]

\* HttpParser::skip_next_line
skip_next_line(r) ==
    LET e == is_line_end(r)
    IN  IF e.st = "ok" /\ e.val THEN [r |-> consume(e.r, 2), st |-> "ok"]
        ELSE [r |-> e.r, st |-> e.st]

-----------------------------------------------------------------------------
(* Messages *)

\* HttpRequest and HttpResponse in one record; a request leaves status_code
\* and status_msg at their defaults, a response method and url.
NewMsg(k) ==
    [kind |-> k, method |-> "Get", url |-> <<>>, version |-> "Http11",
     status_code |-> 0, status_msg |-> <<>>, headers |-> <<>>,
     body |-> <<>>, chunks |-> <<>>, chunked |-> FALSE]

\* HttpHeader::new
HttpHeader(name, value) == [name |-> name, value |-> value]

\* impl PartialEq for HttpHeader
HeaderEq(a, b) == to_lowercase(a.name) = to_lowercase(b.name) /\ a.value = b.value

\* Position of the first header whose name equals name ignoring case, 0 if none.
HeaderPosition(headers, name) ==
    LET I == {i \in 1..Len(headers) :
                to_lowercase(headers[i].name) = to_lowercase(name)}
    IN  IF I = {} THEN 0 ELSE Min(I)

\* HttpRequest::header / HttpResponse::header: <<>> for None, <<h>> for Some(h)
header(m, name) ==
    LET i == HeaderPosition(m.headers, name)
    IN  IF i = 0 THEN <<>> ELSE <<m.headers[i]>>

-----------------------------------------------------------------------------
(* Token parsers: "" stands for the Err(InvalidData) result *)

\* HttpParser::parse_method
parse_method(method) ==
    LET t == trim_ascii(method)
    IN  CASE t = T_GET -> "Get"
          [] t = T_POST -> "Post"
          [] t = T_PUT -> "Put"
          [] t = T_HEAD -> "Head"
          [] t = T_OPTIONS -> "Options"
          [] t = T_DELETE -> "Delete"
          [] t = T_TRACE -> "Trace"
          [] OTHER -> ""

\* HttpParser::parse_version
parse_version(version) ==
    LET t == trim_ascii(version)
    IN  CASE t = T_HTTP11 -> "Http11"
          [] OTHER -> ""

\* Faulty variant of parse_status_code: codes outside 100..599 are rejected.
parse_status_code_ranged(status_code) ==
    LET n == parse_usize(trim(status_code))
    IN  IF n >= 100 /\ n <= 599 THEN n ELSE -1

\* HttpParser::parse_status_code: -1 stands for the Err result
parse_status_code(status_code) == parse_usize(trim(status_code))

-----------------------------------------------------------------------------
(* The parser as a machine over configurations                             *)
(*   [reader, pc, msg, result, error, head]                                *)
(* Each stage below is one step of parse_request / parse_response.         *)

\* head: the message built when the header loop ended (what a head-only parse
\* returns) and the bytes that were then still unread.
NoHead == [msg |-> NewMsg("none"), rest |-> <<>>]

StartConfig(k, r) ==
    [reader |-> r, pc |-> "start", msg |-> NewMsg(k), result |-> "none",
     error |-> "", head |-> NoHead]

\* `?` on an io::Result: an Err returns from the parse with the error, a read
\* the source never answers leaves the parse blocked in it.
Stop(c, r, st) ==
    [c EXCEPT !.reader = r, !.pc = "done",
              !.result = IF st = "block" THEN "blocked" ELSE "err",
              !.error = IF st = "block" THEN "" ELSE st]

\* return Err(std::io::Error::new(InvalidData, ..))
Fail(c, r, what) ==
    [c EXCEPT !.reader = r, !.pc = "done", !.result = "err", !.error = what]

\* a panic: arithmetic overflow or a slice index out of range
Panic(c, r) ==
    [c EXCEPT !.reader = r, !.pc = "done", !.result = "panic", !.error = ""]

\* parse_request, lines 138-150: method SP url SP version LF
RequestLine(c) ==
    LET a == read_until(c.reader, SP)
        method == parse_method(a.out)
        b == read_until(a.r, SP)
        url == trim(b.out)
        l == read_until(b.r, LF)
        version == parse_version(l.out)
    IN  IF a.st # "ok" THEN Stop(c, a.r, a.st)
        ELSE IF method = "" THEN Fail(c, a.r, "method")
        ELSE IF b.st # "ok" THEN Stop(c, b.r, b.st)
        ELSE IF l.st # "ok" THEN Stop(c, l.r, l.st)
        ELSE IF version = "" THEN Fail(c, l.r, "version")
        ELSE [c EXCEPT !.reader = l.r, !.pc = "headers",
                       !.msg = [@ EXCEPT !.method = method, !.url = url,
                                         !.version = version]]

\* parse_response, lines 67-78: version SP status-code SP reason LF
StatusLine(c) ==
    LET a == read_until(c.reader, SP)
        version == parse_version(a.out)
        b == read_until(a.r, SP)
        status_code == parse_status_code(b.out)
        l == read_until(b.r, LF)
        message == trim(l.out)
    IN  IF a.st # "ok" THEN Stop(c, a.r, a.st)
        ELSE IF version = "" THEN Fail(c, a.r, "version")
        ELSE IF b.st # "ok" THEN Stop(c, b.r, b.st)
        ELSE IF status_code < 0 THEN Fail(c, b.r, "status")
        ELSE IF l.st # "ok" THEN Stop(c, l.r, l.st)
        ELSE [c EXCEPT !.reader = l.r, !.pc = "headers",
                       !.msg = [@ EXCEPT !.version = version,
                                         !.status_code = status_code,
                                         !.status_msg = message]]

StartLine(c) == IF c.msg.kind = "request" THEN RequestLine(c) ELSE StatusLine(c)

\* The body of the while loop of parse_headers_two: one header line.
HeaderLine(c, r) ==
    LET n == read_until(r, COLON)
        s == skip_matching(n.r, Whitespace)
        v == read_until(s.r, LF)
        name_len == Len(n.out)
        value_len == Len(v.out)
    IN  IF n.st # "ok" THEN Stop(c, n.r, n.st)
        ELSE IF s.st # "ok" THEN Stop(c, s.r, s.st)
        ELSE IF v.st # "ok" THEN Stop(c, v.r, v.st)
        ELSE IF name_len - 1 < 0 \/ value_len - 2 < 0 THEN Panic(c, v.r)
        ELSE [c EXCEPT !.reader = v.r,
                       !.msg.headers =
                           Append(@, HttpHeader(SubSeq(n.out, 1, name_len - 1),
                                                SubSeq(v.out, 1, value_len - 2)))]

\* Faulty variant of EndHeaders: include_data is not consulted, the body is
\* decoded in a head-only parse too.
EndHeaders_always_body(c, r, include) ==
    LET k == skip_next_line(r)
    IN  IF k.st = "block" THEN Stop(c, k.r, "block")
        ELSE [c EXCEPT !.reader = k.r,
                       !.head = [msg |-> c.msg, rest |-> Remaining(k.r)],
                       !.pc = "body",
                       !.result = "none"]

\* The end of parse_headers_two (skip_next_line, its result dropped) and the
\* construction of the message; a head-only parse returns it here.
EndHeaders(c, r, include) ==
    LET k == skip_next_line(r)
    IN  IF k.st = "block" THEN Stop(c, k.r, "block")
        ELSE [c EXCEPT !.reader = k.r,
                       !.head = [msg |-> c.msg, rest |-> Remaining(k.r)],
                       !.pc = IF include THEN "body" ELSE "done",
                       !.result = IF include THEN "none" ELSE "ok"]

\* One evaluation of the loop condition of parse_headers_two and what follows.
HeaderStep(c, include) ==
    LET e == is_line_end(c.reader)
    IN  IF e.st # "ok" THEN Stop(c, e.r, e.st)
        ELSE IF e.val THEN EndHeaders(c, e.r, include)
        ELSE HeaderLine(c, e.r)

\* Faulty variant of Framing: Content-Length takes precedence.
Framing_length_first(m) ==
    LET encoding_header == header(m, H_TRANSFER_ENCODING)
        content_header == header(m, H_CONTENT_LENGTH)
    IN  IF content_header # <<>> THEN "length"
        ELSE IF encoding_header # <<>> /\ ~Contains(encoding_header[1].value, T_identity)
        THEN "chunked"
        ELSE "none"

\* The framing extract_body_data selects from the two headers.
Framing(m) ==
    LET encoding_header == header(m, H_TRANSFER_ENCODING)
        content_header == header(m, H_CONTENT_LENGTH)
    IN  IF encoding_header # <<>> /\ ~Contains(encoding_header[1].value, T_identity)
        THEN "chunked"
        ELSE IF content_header # <<>> THEN "length"
        ELSE "none"

\* Lines 94-106 / 167-179: the message is returned with chunked set from chunks.
Finish(c, r) ==
    [c EXCEPT !.reader = r, !.pc = "done", !.result = "ok",
              !.msg.chunked = (c.msg.chunks # <<>>)]

\* Faulty variant of extract_body_data: a Content-Length that cannot be parsed
\* is ignored.
extract_body_data_lenient(c) ==
    LET f == Framing(c.msg)
        content_header == header(c.msg, H_CONTENT_LENGTH)[1]
        length == parse_usize(content_header.value)
        b == read_exact(c.reader, length)
    IN  IF f = "chunked" THEN [c EXCEPT !.pc = "chunks"]
        ELSE IF f = "length"
             THEN IF length < 0 THEN Finish(c, c.reader)
                  ELSE IF b.st # "ok" THEN Stop(c, b.r, b.st)
                  ELSE Finish([c EXCEPT !.msg.body = b.out], b.r)
        ELSE Finish(c, c.reader)

\* Faulty variant of extract_body_data: a short read under Content-Length
\* gives the bytes that arrived instead of an error.
extract_body_data_truncating(c) ==
    LET f == Framing(c.msg)
        content_header == header(c.msg, H_CONTENT_LENGTH)[1]
        length == parse_usize(content_header.value)
        b == read_exact(c.reader, length)
    IN  IF f = "chunked" THEN [c EXCEPT !.pc = "chunks"]
        ELSE IF f = "length"
             THEN IF length < 0 THEN Fail(c, c.reader, "header")
                  ELSE IF b.st \notin {"ok", "eof"} THEN Stop(c, b.r, b.st)
                  ELSE Finish([c EXCEPT !.msg.body = b.out], b.r)
        ELSE Finish(c, c.reader)

extract_body_data(c) ==
    LET f == Framing(c.msg)
        content_header == header(c.msg, H_CONTENT_LENGTH)[1]
        length == parse_usize(content_header.value)
        b == read_exact(c.reader, length)
    IN  IF f = "chunked" THEN [c EXCEPT !.pc = "chunks"]
        ELSE IF f = "length"
             THEN IF length < 0 THEN Fail(c, c.reader, "header")
                  ELSE IF b.st # "ok" THEN Stop(c, b.r, b.st)
                  ELSE Finish([c EXCEPT !.msg.body = b.out], b.r)
        ELSE Finish(c, c.reader)

\* Lines 251-255: the sentinel, then back in parse_request / parse_response.
EndChunks(c, r) ==
    Finish([c EXCEPT !.msg.chunks = IF @ # <<>> THEN Append(@, <<0, 0>>) ELSE @], r)

\* `let _ = self.reader.read_until(..)`: an Err is dropped, a read the source
\* never answers still blocks.
Ignored(c, x, next) == IF x.st = "block" THEN Stop(c, x.r, "block") ELSE next

\* Faulty variant of ChunkStep: the chunk-index entry is (offset, length)
\* instead of (start, end).
ChunkStep_offset_length(c) ==
    LET l == read_until(c.reader, LF)
        chunk_size == from_str_radix(trim_ascii(l.out), 16)
        t == read_until(l.r, LF)
        d == read_exact(l.r, chunk_size)
        nl == read_until(d.r, LF)
        body == c.msg.body
    IN  IF l.st = "block" THEN Stop(c, l.r, "block")
        ELSE IF l.st # "ok" THEN EndChunks(c, l.r)
        ELSE IF Len(l.out) = 0 THEN EndChunks(c, l.r)
        ELSE IF chunk_size < 0 THEN EndChunks(c, l.r)
        ELSE IF chunk_size = 0 THEN Ignored(c, t, EndChunks(c, t.r))
        ELSE IF d.st # "ok" THEN Stop(c, d.r, d.st)
        ELSE Ignored(c, nl,
                 [c EXCEPT !.reader = nl.r,
                           !.msg.chunks = Append(@, <<Len(body), Len(d.out)>>),
                           !.msg.body = @ \o d.out])

\* Faulty variant of ChunkStep: a chunk-size line that is no hexadecimal
\* number is an error.
ChunkStep_bad_size_error(c) ==
    LET l == read_until(c.reader, LF)
        chunk_size == from_str_radix(trim_ascii(l.out), 16)
        t == read_until(l.r, LF)
        d == read_exact(l.r, chunk_size)
        nl == read_until(d.r, LF)
        body == c.msg.body
    IN  IF l.st = "block" THEN Stop(c, l.r, "block")
        ELSE IF l.st # "ok" THEN EndChunks(c, l.r)
        ELSE IF Len(l.out) = 0 THEN EndChunks(c, l.r)
        ELSE IF chunk_size < 0 THEN Fail(c, l.r, "header")
        ELSE IF chunk_size = 0 THEN Ignored(c, t, EndChunks(c, t.r))
        ELSE IF d.st # "ok" THEN Stop(c, d.r, d.st)
        ELSE Ignored(c, nl,
                 [c EXCEPT !.reader = nl.r,
                           !.msg.chunks = Append(@, <<Len(body), Len(body) + Len(d.out)>>),
                           !.msg.body = @ \o d.out])

\* Faulty variant of ChunkStep: the line after the zero chunk is left unread.
ChunkStep_keeps_last_line(c) ==
    LET l == read_until(c.reader, LF)
        chunk_size == from_str_radix(trim_ascii(l.out), 16)
        d == read_exact(l.r, chunk_size)
        nl == read_until(d.r, LF)
        body == c.msg.body
    IN  IF l.st = "block" THEN Stop(c, l.r, "block")
        ELSE IF l.st # "ok" THEN EndChunks(c, l.r)
        ELSE IF Len(l.out) = 0 THEN EndChunks(c, l.r)
        ELSE IF chunk_size < 0 THEN EndChunks(c, l.r)
        ELSE IF chunk_size = 0 THEN EndChunks(c, l.r)
        ELSE IF d.st # "ok" THEN Stop(c, d.r, d.st)
        ELSE Ignored(c, nl,
                 [c EXCEPT !.reader = nl.r,
                           !.msg.chunks = Append(@, <<Len(body), Len(body) + Len(d.out)>>),
                           !.msg.body = @ \o d.out])

ChunkStep(c) ==
    LET l == read_until(c.reader, LF)
        chunk_size == from_str_radix(trim_ascii(l.out), 16)
        t == read_until(l.r, LF)
        d == read_exact(l.r, chunk_size)
        nl == read_until(d.r, LF)
        body == c.msg.body
    IN  IF l.st = "block" THEN Stop(c, l.r, "block")
        ELSE IF l.st # "ok" THEN EndChunks(c, l.r)
        ELSE IF Len(l.out) = 0 THEN EndChunks(c, l.r)
        ELSE IF chunk_size < 0 THEN EndChunks(c, l.r)
        ELSE IF chunk_size = 0 THEN Ignored(c, t, EndChunks(c, t.r))
        ELSE IF d.st # "ok" THEN Stop(c, d.r, d.st)
        ELSE Ignored(c, nl,
                 [c EXCEPT !.reader = nl.r,
                           !.msg.chunks = Append(@, <<Len(body), Len(body) + Len(d.out)>>),
                           !.msg.body = @ \o d.out])

\* One step of the parser from configuration c.
Step(c, include) ==
    CASE c.pc = "start" -> StartLine(c)
      [] c.pc = "headers" -> HeaderStep(c, include)
      [] c.pc = "body" -> extract_body_data(c)
      [] c.pc = "chunks" -> ChunkStep(c)

RECURSIVE Run(_, _)
Run(c, include) == IF c.pc = "done" THEN c ELSE Run(Step(c, include), include)

\* parse_request(include_data) / parse_response(include_data) over a source
Parse(k, r, include) == Run(StartConfig(k, r), include)

-----------------------------------------------------------------------------
(* Message operations and the serializer *)

\* Faulty variant of put_header: the existing entry is found by exact name.
put_header_exact_case(m, name, value) ==
    LET I == {i \in 1..Len(m.headers) : m.headers[i].name = name}
    IN  IF I # {}
        THEN [m EXCEPT !.headers[Min(I)].value = value]
        ELSE [m EXCEPT !.headers = Append(@, HttpHeader(name, value))]

\* Faulty variant of put_header: the existing entry takes the new name too.
put_header_renaming(m, name, value) ==
    LET index == HeaderPosition(m.headers, name)
    IN  IF index > 0
        THEN [m EXCEPT !.headers[index] = HttpHeader(name, value)]
        ELSE [m EXCEPT !.headers = Append(@, HttpHeader(name, value))]

\* HttpRequest::put_header / HttpResponse::put_header
put_header(m, name, value) ==
    LET index == HeaderPosition(m.headers, name)
    IN  IF index > 0
        THEN [m EXCEPT !.headers[index].value = value]
        ELSE [m EXCEPT !.headers = Append(@, HttpHeader(name, value))]

\* HttpRequest::remove_header
remove_header(m, name) ==
    [m EXCEPT !.headers =
        SelectSeq(@, LAMBDA h : to_lowercase(h.name) # to_lowercase(name))]

\* Faulty variant of add_data: the chunk-index grows whatever the chunked flag.
add_data_unflagged(m, data) ==
    LET b == [m EXCEPT !.body = @ \o data]
    IN  put_header([b EXCEPT !.chunks = Append(@, <<Len(b.body), Len(data)>>)],
                   IF m.chunked THEN H_TRANSFER_ENCODING ELSE H_CONTENT_LENGTH,
                   IF m.chunked THEN T_chunked ELSE fmt_decimal(Len(b.body)))

\* HttpRequest::add_data / HttpResponse::add_data
add_data(m, data) ==
    LET b == [m EXCEPT !.body = @ \o data]
    IN  IF m.chunked
        THEN put_header([b EXCEPT !.chunks = Append(@, <<Len(b.body), Len(data)>>)],
                        H_TRANSFER_ENCODING, T_chunked)
        ELSE put_header(b, H_CONTENT_LENGTH, fmt_decimal(Len(b.body)))

\* The first line written by into_bytes
StartLineBytes(m) ==
    IF m.kind = "request"
    THEN MethodText(m.method) \o <<SP>> \o m.url \o <<SP>>
         \o VersionText(m.version) \o <<CR, LF>>
    ELSE VersionText(m.version) \o <<SP>> \o fmt_decimal(m.status_code) \o <<SP>>
         \o m.status_msg \o <<CR, LF>>

\* Faulty variant of HeaderBytes: names are written in lower case.
RECURSIVE HeaderBytes_lowercase(_)
HeaderBytes_lowercase(headers) ==
    IF headers = <<>> THEN <<>>
    ELSE to_lowercase(Head(headers).name) \o <<COLON, SP>>
         \o Head(headers).value \o <<CR, LF>>
         \o HeaderBytes_lowercase(Tail(headers))

\* impl Display for HttpHeader, followed by CRLF, for every header in order
RECURSIVE HeaderBytes(_)
HeaderBytes(headers) ==
    IF headers = <<>> THEN <<>>
    ELSE Head(headers).name \o <<COLON, SP>> \o Head(headers).value \o <<CR, LF>>
         \o HeaderBytes(Tail(headers))

\* `end - start` and `&self.body[*start..*end]` are in range
ChunkInRange(body, ch) == ch[1] <= ch[2] /\ ch[2] <= Len(body)

\* The chunk loop of into_bytes: size in hex, CRLF, the slice, CRLF
RECURSIVE ChunkBytes(_, _)
ChunkBytes(body, chunks) ==
    IF chunks = <<>> THEN <<>>
    ELSE LET start == Head(chunks)[1]
             end == Head(chunks)[2]
         IN  fmt_upper_hex(end - start) \o <<CR, LF>>
             \o SubSeq(body, start + 1, end) \o <<CR, LF>>
             \o ChunkBytes(body, Tail(chunks))

\* The chunk pairs into_bytes visits before the first one that panics.
RECURSIVE InRangePrefix(_, _)
InRangePrefix(body, chunks) ==
    IF chunks = <<>> \/ ~ChunkInRange(body, Head(chunks)) THEN <<>>
    ELSE <<Head(chunks)>> \o InRangePrefix(body, Tail(chunks))

\* HttpRequest::into_bytes / HttpResponse::into_bytes.  panic: a chunk pair
\* with end < start or end > body.len() was reached.
into_bytes(m) ==
    LET top == StartLineBytes(m) \o HeaderBytes(m.headers) \o <<CR, LF>>
        good == InRangePrefix(m.body, m.chunks)
    IN  IF m.body = <<>> THEN [panic |-> FALSE, bytes |-> top]
        ELSE IF m.chunked
             THEN [panic |-> good # m.chunks,
                   bytes |-> top \o ChunkBytes(m.body, good)]
        ELSE [panic |-> FALSE, bytes |-> top \o m.body]

-----------------------------------------------------------------------------
(* The URL model: HttpUrl, its builder, parse, Display and accessors.  A    *)
(* HashMap<String, String> is a function from keys to values; an Option is  *)
(* <<>> for None and <<x>> for Some(x).                                     *)

DEFAULT_HTTP_PORT == 80
DEFAULT_HTTPS_PORT == 443

S_http == <<"h","t","t","p">>
S_https == <<"h","t","t","p","s">>
S_ftp == <<"f","t","p">>

\* HashMap::new
EmptyMap == [k \in {} |-> <<>>]

\* HashMap::insert
Insert(map, key, value) == [k \in DOMAIN map \cup {key} |->
                                IF k = key THEN value ELSE map[k]]

\* str::find with a string pattern: index of the first match, 0 for None
FindSub(s, p) ==
    LET I == {i \in 1..(Len(s) - Len(p) + 1) : SubSeq(s, i, i + Len(p) - 1) = p}
    IN  IF I = {} THEN 0 ELSE Min(I)

\* str::split with one separator byte: the pieces in order
RECURSIVE SplitOn(_, _)
SplitOn(s, b) ==
    LET i == IndexOf(s, b)
    IN  IF i = 0 THEN <<s>>
        ELSE <<SubSeq(s, 1, i - 1)>> \o SplitOn(DropFirst(s, i), b)

\* str::split(['?', '#']).nth(0): the text before the first ? or #
BeforeMarkers(s) ==
    LET I == {i \in 1..Len(s) : s[i] \in {"?", "#"}}
    IN  IF I = {} THEN s ELSE SubSeq(s, 1, Min(I) - 1)

\* str::parse::<u16>(): -1 stands for Err
parse_u16(s) ==
    LET v == from_str_radix(s, 10)
    IN  IF v > 65535 THEN -1 ELSE v

\* HttpUrlBuilder::new
NewUrlBuilder ==
    [scheme |-> S_http, host |-> <<>>, port |-> <<>>, path |-> <<>>,
     query |-> EmptyMap, fragment |-> <<>>]

\* HttpUrlBuilder::build
url_build(b) == b

\* The for loop of HttpUrl::parse over the pieces of the query string
RECURSIVE InsertPairs(_, _)
InsertPairs(query, kvs) ==
    IF kvs = <<>> THEN query
    ELSE LET kv_parts == SplitOn(Head(kvs), "=")
             key == kv_parts[1]
             value == IF Len(kv_parts) >= 2 THEN kv_parts[2] ELSE <<>>
         IN  InsertPairs(Insert(query, key, value), Tail(kvs))

\* A value that is no HttpUrl (nothing built, or Err returned)
NoUrl == [scheme |-> <<>>]

\* Faulty variant of url_parse: the query is split off before the fragment.
url_parse_query_first(text) ==
    LET pos == FindSub(text, <<":","/","/">>)
        scheme == IF pos > 0 THEN SubSeq(text, 1, pos - 1) ELSE S_http
        remainder == IF pos > 0 THEN DropFirst(text, pos + 2) ELSE text
        slash == IndexOf(remainder, "/")
        host_port == IF slash = 0 THEN remainder ELSE SubSeq(remainder, 1, slash - 1)
        path == <<"/">> \o (IF slash = 0 THEN <<>> ELSE DropFirst(remainder, slash))
        colon_pos == IndexOf(host_port, ":")
        host == IF colon_pos = 0 THEN host_port ELSE SubSeq(host_port, 1, colon_pos - 1)
        port == IF colon_pos = 0 THEN 0 ELSE parse_u16(DropFirst(host_port, colon_pos))
        query_pos == IndexOf(path, "?")
        after_query == IF query_pos = 0 THEN path ELSE DropFirst(path, query_pos)
        fragment_pos == IndexOf(after_query, "#")
        query_string == IF fragment_pos = 0 THEN after_query
                        ELSE SubSeq(after_query, 1, fragment_pos - 1)
    IN  IF pos > 0 /\ scheme \notin {S_http, S_https}
        THEN [err |-> "scheme", url |-> NoUrl]
        ELSE IF port < 0 THEN [err |-> "port", url |-> NoUrl]
        ELSE [err |-> "",
              url |-> [scheme |-> scheme, host |-> host,
                       port |-> IF colon_pos = 0 THEN <<>> ELSE <<port>>,
                       path |-> path,
                       query |-> IF query_pos = 0 THEN EmptyMap
                                 ELSE InsertPairs(EmptyMap, SplitOn(query_string, "&")),
                       fragment |-> IF fragment_pos = 0 THEN <<>>
                                    ELSE <<DropFirst(after_query, fragment_pos)>>]]

\* HttpUrl::parse.  err: "" for Ok, "scheme" and "port" for the two Err texts.
\* The path stored is the whole text from the first "/" on.
url_parse(text) ==
    LET pos == FindSub(text, <<":","/","/">>)
        scheme == IF pos > 0 THEN SubSeq(text, 1, pos - 1) ELSE S_http
        remainder == IF pos > 0 THEN DropFirst(text, pos + 2) ELSE text
        slash == IndexOf(remainder, "/")
        host_port == IF slash = 0 THEN remainder ELSE SubSeq(remainder, 1, slash - 1)
        path == <<"/">> \o (IF slash = 0 THEN <<>> ELSE DropFirst(remainder, slash))
        colon_pos == IndexOf(host_port, ":")
        host == IF colon_pos = 0 THEN host_port ELSE SubSeq(host_port, 1, colon_pos - 1)
        port == IF colon_pos = 0 THEN 0 ELSE parse_u16(DropFirst(host_port, colon_pos))
        fragment_pos == IndexOf(path, "#")
        path_without_fragment == IF fragment_pos = 0 THEN path
                                 ELSE SubSeq(path, 1, fragment_pos - 1)
        query_pos == IndexOf(path_without_fragment, "?")
        query_string == DropFirst(path_without_fragment, query_pos)
    IN  IF pos > 0 /\ scheme \notin {S_http, S_https}
        THEN [err |-> "scheme", url |-> NoUrl]
        ELSE IF port < 0 THEN [err |-> "port", url |-> NoUrl]
        ELSE [err |-> "",
              url |-> [scheme |-> scheme, host |-> host,
                       port |-> IF colon_pos = 0 THEN <<>> ELSE <<port>>,
                       path |-> path,
                       query |-> IF query_pos = 0 THEN EmptyMap
                                 ELSE InsertPairs(EmptyMap, SplitOn(query_string, "&")),
                       fragment |-> IF fragment_pos = 0 THEN <<>>
                                    ELSE <<DropFirst(path, fragment_pos)>>]]

\* The orders in which a HashMap may hand out its keys
KeyOrders(query) ==
    LET n == Cardinality(DOMAIN query)
    IN  {o \in [1..n -> DOMAIN query] : \A i, j \in 1..n : o[i] = o[j] => i = j}

\* query_string.join("&") of the `k=v` texts, keys taken in the order o
RECURSIVE JoinPairs(_, _, _)
JoinPairs(query, o, i) ==
    IF i > Len(o) THEN <<>>
    ELSE (IF i > 1 THEN <<"&">> ELSE <<>>)
         \o o[i] \o <<"=">> \o query[o[i]] \o JoinPairs(query, o, i + 1)

\* Faulty variant of to_string: the default port is written when none is set.
to_string_default_port(u, o) ==
    u.scheme \o <<":","/","/">> \o u.host
    \o <<":">> \o fmt_decimal(IF u.port # <<>> THEN u.port[1]
                              ELSE IF u.scheme = S_https THEN DEFAULT_HTTPS_PORT
                              ELSE DEFAULT_HTTP_PORT)
    \o (IF u.path = <<>> THEN <<>> ELSE <<"/">> \o u.path)
    \o (IF DOMAIN u.query = {} THEN <<>> ELSE <<"?">> \o JoinPairs(u.query, o, 1))
    \o (IF u.fragment = <<>> THEN <<>> ELSE <<"#">> \o u.fragment[1])

\* impl Display for HttpUrl, the map iterated in the order o
to_string(u, o) ==
    u.scheme \o <<":","/","/">> \o u.host
    \o (IF u.port = <<>> THEN <<>> ELSE <<":">> \o fmt_decimal(u.port[1]))
    \o (IF u.path = <<>> THEN <<>> ELSE <<"/">> \o u.path)
    \o (IF DOMAIN u.query = {} THEN <<>> ELSE <<"?">> \o JoinPairs(u.query, o, 1))
    \o (IF u.fragment = <<>> THEN <<>> ELSE <<"#">> \o u.fragment[1])

\* Faulty variant of address: an explicit port is ignored.
address_default_only(u) ==
    u.host \o <<":">>
    \o fmt_decimal(IF u.scheme = S_https THEN DEFAULT_HTTPS_PORT
                   ELSE DEFAULT_HTTP_PORT)

\* HttpUrl::address
address(u) ==
    IF u.port # <<>> THEN u.host \o <<":">> \o fmt_decimal(u.port[1])
    ELSE u.host \o <<":">>
         \o fmt_decimal(IF u.scheme = S_https THEN DEFAULT_HTTPS_PORT
                        ELSE DEFAULT_HTTP_PORT)

\* HttpUrl::file
file(u) ==
    IF (u.path # <<>> /\ u.path[Len(u.path)] = "/") \/ IndexOf(u.path, ".") = 0
    THEN <<>>
    ELSE LET parts == SplitOn(u.path, "/")
             file_path == parts[Len(parts)]
         IN  IF IndexOf(u.path, "?") > 0 \/ IndexOf(u.path, "#") > 0
             THEN <<BeforeMarkers(file_path)>>
             ELSE <<file_path>>

NoView == [of |-> "none", address |-> <<>>, file |-> <<>>]

\* The URL variables while no URL is being built or parsed
UrlIdle ==
    /\ url_pc = "idle"
    /\ url_builder = NewUrlBuilder
    /\ http_url = NoUrl
    /\ url_text = <<>>
    /\ url_parsed = [err |-> "", url |-> NoUrl]
    /\ url_view = NoView

-----------------------------------------------------------------------------
(* StatusCode and its comparisons with usize *)

\* pub struct StatusCode(pub(crate) usize, pub(crate) &'static str): s[1] is
\* the field .0, s[2] the field .1
StatusCode(code, text) == <<code, text>>

M_CONTINUE == <<"C","o","n","t","i","n","u","e">>
M_CREATED == <<"C","r","e","a","t","e","d">>
M_BAD_REQUEST == <<"B","a","d",SP,"R","e","q","u","e","s","t">>
SC_CONTINUE == StatusCode(100, M_CONTINUE)
SC_OK == StatusCode(200, M_OK)
SC_CREATED == StatusCode(201, M_CREATED)
SC_BAD_REQUEST == StatusCode(400, M_BAD_REQUEST)
SC_NOT_FOUND == StatusCode(404, M_NOT_FOUND)

\* Faulty variant of status_eq_usize: only the low 16 bits are compared.
status_eq_usize_truncating(s, other) == s[1] = other % 65536

\* impl PartialEq<usize> for StatusCode: &self.0 == other
status_eq_usize(s, other) == s[1] = other

\* impl PartialEq<StatusCode> for usize: self == &other.0
usize_eq_status(n, other) == n = other[1]

NoCompare == [s |-> <<>>, n |-> 0, left |-> <<>>, right |-> <<>>]

-----------------------------------------------------------------------------
(* ByteBuffer: an in-memory byte source *)

\* ByteBuffer::new
ByteBuffer_new(buffer) == [inner |-> buffer, index |-> 0]

\* Faulty variant of ByteBuffer_read: the index stays where it was when the
\* leftover bytes are handed out.
ByteBuffer_read_leftover_again(b, buf_len) ==
    LET inner_len == Len(b.inner)
        start == b.index
        leftover_count == inner_len - b.index
    IN  IF start + buf_len <= inner_len
        THEN [b |-> [b EXCEPT !.index = @ + buf_len], n |-> buf_len,
              data |-> SubSeq(b.inner, start + 1, start + buf_len)]
        ELSE IF start < inner_len
        THEN [b |-> b, n |-> leftover_count,
              data |-> SubSeq(b.inner, start + 1, start + leftover_count)]
        ELSE [b |-> b, n |-> 0, data |-> <<>>]

\* impl Read for ByteBuffer, read(&mut self, buf) with buf.len() = buf_len:
\* the buffer after the call, the count returned and the bytes written to the
\* front of buf.  start + buf_len cannot overflow: both are at most
\* isize::MAX, the largest size of an allocation.
ByteBuffer_read(b, buf_len) ==
    LET inner_len == Len(b.inner)
        start == b.index
        leftover_count == inner_len - b.index
    IN  IF start + buf_len <= inner_len
        THEN [b |-> [b EXCEPT !.index = @ + buf_len], n |-> buf_len,
              data |-> SubSeq(b.inner, start + 1, start + buf_len)]
        ELSE IF start < inner_len
        THEN [b |-> [b EXCEPT !.index = @ + leftover_count], n |-> leftover_count,
              data |-> SubSeq(b.inner, start + 1, start + leftover_count)]
        ELSE [b |-> b, n |-> 0, data |-> <<>>]

\* The variables of the comparisons, of the ByteBuffer and of earlier parse
\* calls while none of them is in use
AuxIdle ==
    /\ compare = NoCompare
    /\ byte_buffer = ByteBuffer_new(<<>>)
    /\ reads = <<>>
    /\ returned = <<>>

-----------------------------------------------------------------------------
(* Builders *)

\* HttpRequestBuilder::new / HttpResponseBuilder::new.  headers and data are
\* None until first used; build() turns None into the empty vector.
NewBuilder(k) ==
    [kind |-> k, method |-> "Get", url |-> <<"/">>, version |-> "Http11",
     status_code |-> 200, status_msg |-> M_OK, headers |-> <<>>, data |-> <<>>]

\* HttpRequestBuilder::method
builder_method(b, method) == [b EXCEPT !.method = method]

\* HttpResponseBuilder::status, with the StatusCode pair (number, text)
builder_status(b, code, text) == [b EXCEPT !.status_code = code, !.status_msg = text]

\* HttpRequestBuilder::header / HttpResponseBuilder::header
builder_header(b, name, value) ==
    [b EXCEPT !.headers = Append(@, HttpHeader(name, value))]

\* HttpRequestBuilder::body / HttpResponseBuilder::body
builder_body(b, new_data) == [b EXCEPT !.data = @ \o new_data]

\* HttpRequestBuilder::build / HttpResponseBuilder::build
build(b) ==
    [kind |-> b.kind,
     method |-> IF b.kind = "request" THEN b.method ELSE "Get",
     url |-> IF b.kind = "request" THEN b.url ELSE <<>>,
     version |-> b.version,
     status_code |-> IF b.kind = "response" THEN b.status_code ELSE 0,
     status_msg |-> IF b.kind = "response" THEN b.status_msg ELSE <<>>,
     headers |-> b.headers, body |-> b.data, chunks |-> <<>>, chunked |-> FALSE]

-----------------------------------------------------------------------------
(* The inputs of the model: wire texts assembled from tokens *)

MaxHeaders == 2     \* header lines per input message / builder
MaxChunks == 2      \* chunks per chunked input body
MaxOps == 1         \* put_header / add_data calls applied to one message
MaxCalls == 2       \* builder calls before build()
MaxDest == 3        \* largest destination slice handed to ByteBuffer::read
MaxReads == 3       \* read calls on one ByteBuffer

CRLF == <<CR, LF>>
Kinds == {"request", "response"}

\* All sequences over S of length at most n.
RECURSIVE SeqsUpTo(_, _)
SeqsUpTo(S, n) ==
    IF n = 0 THEN {<<>>}
    ELSE LET P == SeqsUpTo(S, n - 1)
         IN  P \cup {Append(p, x) : p \in P, x \in S}

RECURSIVE Concat(_)
Concat(ss) == IF ss = <<>> THEN <<>> ELSE Head(ss) \o Concat(Tail(ss))

T_FOO == <<"F","O","O">>
T_HTTP == <<"H","T","T","P">>
D_abc == <<"a","b","c">>
D_ten == <<"0","1","2","3","4","5","6","7","8","9">>
N_host == <<"H","o","s","t">>
N_HOST == <<"H","O","S","T">>
N_te_lower == to_lowercase(H_TRANSFER_ENCODING)
N_cl_lower == to_lowercase(H_CONTENT_LENGTH)

MethodTokens == {T_GET, T_POST, T_PUT, T_HEAD, T_OPTIONS, T_DELETE, T_TRACE,
                 T_PATCH, T_CONNECT, T_FOO}
VersionTokens == {T_HTTP10, T_HTTP11, T_HTTP2, T_HTTP3, T_HTTP}
\* usize::MAX + 1 written in decimal
T_2_64 ==
    <<"1","8","4","4","6","7","4","4","0","7","3","7","0","9","5","5","1","6","1","6">>
R_spaced == <<SP>> \o M_OK \o <<SP>>
StatusTokens == {<<"2","0","0">>, <<"4","0","4">>, <<"+","7">>, <<"0","0","7">>,
                 <<"2","x">>, T_2_64}
ReasonTexts == {M_OK, M_NOT_FOUND, <<>>, R_spaced}

RequestStart(method, target, version) ==
    method \o <<SP>> \o target \o <<SP>> \o version \o CRLF
StatusStart(version, code, reason) ==
    version \o <<SP>> \o code \o <<SP>> \o reason \o CRLF
GoodStart(k) ==
    IF k = "request" THEN RequestStart(T_GET, <<"/">>, T_HTTP11)
    ELSE StatusStart(T_HTTP11, <<"2","0","0">>, M_OK)

\* Header lines as <<name, value>>, written `name: value CRLF`
FramingPool == {<<H_TRANSFER_ENCODING, T_chunked>>, <<N_te_lower, T_identity>>,
                <<H_CONTENT_LENGTH, <<"3">> >>, <<N_cl_lower, <<"x">> >>}
X_empty == <<<<"X">>, <<>> >>
ShapePool == {<<N_host, <<"a">> >>, <<N_HOST, <<"b">> >>, X_empty}

HeaderText(h) == h[1] \o <<COLON, SP>> \o h[2] \o CRLF
RECURSIVE HeadersText(_)
HeadersText(hs) ==
    IF hs = <<>> THEN <<>> ELSE HeaderText(Head(hs)) \o HeadersText(Tail(hs))

\* Chunks as <<size text, data>>
ChunkPool == {<< <<"3">>, D_abc >>, << <<"a">>, D_ten >>}
ChunkLists == SeqsUpTo(ChunkPool, MaxChunks)
ChunkText(ch) == ch[1] \o CRLF \o ch[2] \o CRLF
RECURSIVE ChunksText(_)
ChunksText(cs) ==
    IF cs = <<>> THEN <<"0">> \o CRLF \o CRLF
    ELSE ChunkText(Head(cs)) \o ChunksText(Tail(cs))
RECURSIVE ChunksData(_)
ChunksData(cs) == IF cs = <<>> THEN <<>> ELSE Head(cs)[2] \o ChunksData(Tail(cs))

ChunkedBodies == {ChunksText(cs) : cs \in ChunkLists}
RawBodies == {<<>>, <<"a","b">>, D_abc, D_abc \o <<"d","e">>}
BadSizeLine == <<"z","z">> \o CRLF
BrokenBodies == {BadSizeLine \o D_abc,
                 ChunkText(<< <<"3">>, D_abc >>) \o BadSizeLine,
                 <<"3">> \o CRLF \o <<"a","b">>}
Bodies == RawBodies \cup ChunkedBodies \cup BrokenBodies

Message(k, hs, body) == GoodStart(k) \o HeadersText(hs) \o CRLF \o body

\* Messages with a good start line: framing headers with every body, and
\* header lines of other shapes without a body.
FramingInputs ==
    {[kind |-> k, bytes |-> Message(k, hs, b)] :
        k \in Kinds, hs \in SeqsUpTo(FramingPool, MaxHeaders), b \in Bodies}
ShapeInputs ==
    {[kind |-> k, bytes |-> Message(k, hs, <<>>)] :
        k \in Kinds, hs \in SeqsUpTo(ShapePool, MaxHeaders)}

\* Every start line, followed by no header or by a Content-Length that
\* cannot be parsed.
StartInputs ==
    LET tails == {CRLF, HeaderText(<<N_cl_lower, <<"x">> >>) \o CRLF}
    IN  {[kind |-> "request", bytes |-> RequestStart(m, <<"/">>, v) \o t] :
            m \in MethodTokens, v \in VersionTokens, t \in tails}
        \cup
        {[kind |-> "response", bytes |-> StatusStart(v, c, r) \o t] :
            v \in VersionTokens, c \in StatusTokens, r \in ReasonTexts, t \in tails}

\* A header with an empty value next to a framing header, with a body.
MixedInputs ==
    {[kind |-> k, bytes |-> Message(k, hs, b)] :
        k \in Kinds,
        hs \in UNION {{<<f, X_empty>>, <<X_empty, f>>} :
                        f \in {<<H_TRANSFER_ENCODING, T_chunked>>,
                               <<H_CONTENT_LENGTH, <<"3">> >>}},
        b \in {D_abc, ChunksText(<< << <<"3">>, D_abc >> >>)}}

\* A Content-Length written with a sign.
SignedInputs ==
    {[kind |-> k,
      bytes |-> Message(k, << <<H_CONTENT_LENGTH, <<"+", "3">> >> >>, D_abc)] :
        k \in Kinds}

\* Inputs that end early or whose header line is not `name: value CRLF`: the
\* data ends inside the start line, after a header name, after the colon or
\* inside the value; a line has no colon; a line ends in a bare LF.
TruncatedTails ==
    {N_host, N_host \o <<COLON>>, N_host \o <<COLON, SP, "a">>,
     N_host \o CRLF \o CRLF, N_host \o <<COLON, SP, "a", LF>> \o CRLF}
TruncatedInputs ==
    {[kind |-> k, bytes |-> GoodStart(k) \o t] : k \in Kinds, t \in TruncatedTails}
    \cup {[kind |-> k, bytes |-> SubSeq(GoodStart(k), 1, Len(GoodStart(k)) - 4)] :
            k \in Kinds}

WholeInputs ==
    FramingInputs \cup ShapeInputs \cup StartInputs \cup MixedInputs
    \cup SignedInputs \cup TruncatedInputs

\* A source that answers one read with all the bytes, then end-of-data
\* (ByteBuffer, Cursor).
Whole(i) ==
    [kind |-> i.kind, bytes |-> i.bytes,
     src |-> IF i.bytes = <<>> THEN <<>> ELSE <<Piece(i.bytes)>>, eof |-> TRUE]

\* Messages delivered in two reads split at every position, the source then
\* signalling end-of-data or staying silent (TcpStream), with or without an
\* I/O error between the two reads.
SplitInputs ==
    {[kind |-> "request", bytes |-> Message("request", << <<N_host, <<"a">> >> >>, <<>>)],
     [kind |-> "response",
      bytes |-> Message("response", << <<H_CONTENT_LENGTH, <<"3">> >> >>, D_abc)],
     [kind |-> "response",
      bytes |-> Message("response", << <<H_TRANSFER_ENCODING, T_chunked>> >>,
                        ChunksText(<< << <<"3">>, D_abc >> >>))],
     [kind |-> "response",
      bytes |-> Message("response", << <<H_TRANSFER_ENCODING, T_chunked>>, X_empty>>,
                        ChunksText(<< << <<"3">>, D_abc >> >>))]}
Split(i, k, err, eof) ==
    [kind |-> i.kind, bytes |-> i.bytes,
     src |-> (IF k = 0 THEN <<>> ELSE <<Piece(SubSeq(i.bytes, 1, k))>>)
             \o (IF err THEN <<IoError>> ELSE <<>>)
             \o <<Piece(SubSeq(i.bytes, k + 1, Len(i.bytes)))>>,
     eof |-> eof]

Tests ==
    {Whole(i) : i \in WholeInputs}
    \cup UNION {{Split(i, k, err, eof) : k \in 0..(Len(i.bytes) - 1),
                                         err \in BOOLEAN, eof \in BOOLEAN} :
                i \in SplitInputs}

-----------------------------------------------------------------------------
(* The state machine *)

NoWire == [set |-> FALSE, panic |-> FALSE, bytes |-> <<>>]

Config ==
    [reader |-> reader, pc |-> pc, msg |-> msg, result |-> result,
     error |-> error, head |-> head]

\* The parser variables after a step to configuration c.
Becomes(c) ==
    /\ reader' = c.reader
    /\ pc' = c.pc
    /\ msg' = c.msg
    /\ result' = c.result
    /\ error' = c.error
    /\ head' = c.head

\* Either a parser is created over a source and request(), response() or a
\* head-only variant is called, or a builder is created.
InitParse ==
    \E t \in Tests, inc \in BOOLEAN :
        /\ input = t.bytes
        /\ source = [src |-> t.src, eof |-> t.eof]
        /\ kind = t.kind
        /\ include_data = inc
        /\ reader = from_reader(t.src, t.eof)
        /\ pc = "start"
        /\ msg = NewMsg(t.kind)
        /\ builder = NewBuilder(t.kind)

InitBuild ==
    \E k \in Kinds :
        /\ input = <<>>
        /\ source = [src |-> <<>>, eof |-> TRUE]
        /\ kind = k
        /\ include_data = TRUE
        /\ reader = from_reader(<<>>, TRUE)
        /\ pc = "build"
        /\ msg = NewMsg(k)
        /\ builder = NewBuilder(k)

Init ==
    /\ InitParse \/ InitBuild
    /\ result = "none"
    /\ error = ""
    /\ head = NoHead
    /\ wire = NoWire
    /\ ops = 0
    /\ UrlIdle
    /\ AuxIdle

Frame ==
    UNCHANGED <<input, source, kind, include_data, wire, ops, builder, urlvars,
                auxvars>>

\* parse_request / parse_response: the start line
ParseStartLine ==
    /\ pc = "start"
    /\ Becomes(StartLine(Config))
    /\ Frame

\* parse_headers_two: the loop condition is false, one header line is read
ParseHeaderLine ==
    /\ pc = "headers"
    /\ LET e == is_line_end(reader) IN e.st = "ok" => ~e.val
    /\ Becomes(HeaderStep(Config, include_data))
    /\ Frame

\* parse_headers_two: the loop ends; a head-only parse returns
ParseEndHeaders ==
    /\ pc = "headers"
    /\ LET e == is_line_end(reader) IN e.st = "ok" /\ e.val
    /\ Becomes(HeaderStep(Config, include_data))
    /\ Frame

\* extract_body_data
ExtractBody ==
    /\ pc = "body"
    /\ Becomes(extract_body_data(Config))
    /\ Frame

\* read_chunked_body: one iteration of its loop
ReadChunk ==
    /\ pc = "chunks"
    /\ Becomes(ChunkStep(Config))
    /\ Frame

BuilderFrame ==
    UNCHANGED <<input, source, kind, include_data, reader, pc, msg, result,
                error, head, wire, ops, urlvars, auxvars>>

BuilderPool == {<<N_host, <<"a">> >>, <<N_HOST, <<"b">> >>,
                <<H_CONTENT_LENGTH, <<"3">> >>, <<<<"X">>, <<>> >>}

BuilderHeader ==
    /\ pc = "build"
    /\ Len(builder.headers) < MaxHeaders
    /\ \E h \in BuilderPool : builder' = builder_header(builder, h[1], h[2])
    /\ BuilderFrame

BuilderBody ==
    /\ pc = "build"
    /\ Len(builder.data) < MaxCalls * Len(D_abc)
    /\ builder' = builder_body(builder, D_abc)
    /\ BuilderFrame

BuilderMethod ==
    /\ pc = "build"
    /\ kind = "request"
    /\ builder.method = "Get"
    /\ \E m \in {"Post", "Patch"} : builder' = builder_method(builder, m)
    /\ BuilderFrame

BuilderStatus ==
    /\ pc = "build"
    /\ kind = "response"
    /\ builder.status_code = 200
    /\ builder' = builder_status(builder, 404, M_NOT_FOUND)
    /\ BuilderFrame

Build ==
    /\ pc = "build"
    /\ pc' = "done"
    /\ msg' = build(builder)
    /\ result' = "ok"
    /\ UNCHANGED <<input, source, kind, include_data, reader, error, head,
                   wire, ops, builder, urlvars, auxvars>>

MessageFrame ==
    UNCHANGED <<input, source, kind, include_data, reader, pc, result, error,
                head, wire, builder, urlvars, auxvars>>

PutPool == {<<N_HOST, <<"c">> >>, <<<<"X">>, <<>> >>}

\* put_header on the message the caller holds
PutHeader ==
    /\ result = "ok"
    /\ ~wire.set
    /\ ops < MaxOps
    /\ \E h \in PutPool : msg' = put_header(msg, h[1], h[2])
    /\ ops' = ops + 1
    /\ MessageFrame

\* remove_header on the request the caller holds
RemoveHeader ==
    /\ result = "ok"
    /\ ~wire.set
    /\ ops < MaxOps
    /\ kind = "request"
    /\ \E n \in {N_HOST, H_CONTENT_LENGTH} : msg' = remove_header(msg, n)
    /\ ops' = ops + 1
    /\ MessageFrame

\* add_data on the message the caller holds
AddData ==
    /\ result = "ok"
    /\ ~wire.set
    /\ ops < MaxOps
    /\ msg' = add_data(msg, <<"x", "y">>)
    /\ ops' = ops + 1
    /\ MessageFrame

\* into_bytes on the message the caller holds
IntoBytes ==
    /\ result = "ok"
    /\ ~wire.set
    /\ wire' = [set |-> TRUE] @@ into_bytes(msg)
    /\ UNCHANGED <<input, source, kind, include_data, reader, pc, msg, result,
                   error, head, ops, builder, urlvars, auxvars>>

Next ==
    \/ ParseStartLine
    \/ ParseHeaderLine
    \/ ParseEndHeaders
    \/ ExtractBody
    \/ ReadChunk
    \/ BuilderHeader
    \/ BuilderBody
    \/ BuilderMethod
    \/ BuilderStatus
    \/ Build
    \/ PutHeader
    \/ RemoveHeader
    \/ AddData
    \/ IntoBytes

Spec == Init /\ [][Next]_vars

-----------------------------------------------------------------------------
(* URL inputs and actions *)

U_localhost == <<"1","2","7",".","0",".","0",".","1">>
U_google == <<"w","w","w",".","g","o","o","g","l","e",".","c","o","m">>
U_video == <<"v","i","d","e","o",".","m","p","4">>
U_time == <<"t","i","m","e">>
U_start == <<"s","t","a","r","t">>
U_example == <<"h","t","t","p",":","/","/","1","2","7",".","0",".","0",".","1",":","8","0","8","0","/","v","i","d","e","o",".","m","p","4","?","s","t","a","r","t","=","5","6","#","t","i","m","e">>

\* The texts handed to HttpUrl::parse
UrlTexts ==
    {U_example,
     <<"h","t","t","p","s",":","/","/","w","w","w",".","g","o","o","g","l","e",".","c","o","m">>,
     <<"f","t","p",":","/","/","h","/","x">>,
     <<"h",":","8","0","/","a","/","b","/">>,
     <<"h",":","x","/">>,
     <<"h",":","6","5","5","3","6">>,
     <<"h","/","p","?","a","=","b","=","c","&","d">>,
     <<"h","/","p","?","a","=","1","#","f">>,
     <<"h","/","p","#","f","?","a","=","1">>,
     <<"h","/","d","i","r","/","?","v","=","1",".","2">>,
     <<"h","/","v",".","m","p","4","?","x","=","a","/","b">>,
     <<"h","/","p","?">>}

\* Arguments of the builder calls
UrlPaths == {U_video, <<"a","/","b","/">>}
UrlParams == {<<U_start, <<"5","6">>>>, <<U_start, <<"7">>>>, <<<<"q">>, <<"a","=","b">>>>}

\* The message parser stands still while URLs are built and parsed
ParserIdle ==
    /\ input = <<>>
    /\ source = [src |-> <<>>, eof |-> TRUE]
    /\ kind = "request"
    /\ include_data = TRUE
    /\ reader = from_reader(<<>>, TRUE)
    /\ pc = "idle"
    /\ msg = NewMsg("request")
    /\ builder = NewBuilder("request")
    /\ result = "none"
    /\ error = ""
    /\ head = NoHead
    /\ wire = NoWire
    /\ ops = 0

\* Either HttpUrl::builder() is called, or HttpUrl::parse on a text
UrlInit ==
    /\ ParserIdle
    /\ AuxIdle
    /\ url_builder = NewUrlBuilder
    /\ http_url = NoUrl
    /\ url_parsed = [err |-> "", url |-> NoUrl]
    /\ url_view = NoView
    /\ \/ url_pc = "build" /\ url_text = <<>>
       \/ url_pc = "text" /\ url_text \in UrlTexts

UrlFrame == UNCHANGED <<msgvars, auxvars>>

\* HttpUrlBuilder::scheme
UrlScheme ==
    /\ url_pc = "build"
    /\ \E s \in {S_https, S_ftp} : url_builder' = [url_builder EXCEPT !.scheme = s]
    /\ UNCHANGED <<url_pc, http_url, url_text, url_parsed, url_view>>
    /\ UrlFrame

\* HttpUrlBuilder::host
UrlHost ==
    /\ url_pc = "build"
    /\ \E h \in {U_localhost, U_google} : url_builder' = [url_builder EXCEPT !.host = h]
    /\ UNCHANGED <<url_pc, http_url, url_text, url_parsed, url_view>>
    /\ UrlFrame

\* HttpUrlBuilder::port
UrlPort ==
    /\ url_pc = "build"
    /\ \E p \in {8080, 443} : url_builder' = [url_builder EXCEPT !.port = <<p>>]
    /\ UNCHANGED <<url_pc, http_url, url_text, url_parsed, url_view>>
    /\ UrlFrame

\* HttpUrlBuilder::path
UrlPath ==
    /\ url_pc = "build"
    /\ \E p \in UrlPaths : url_builder' = [url_builder EXCEPT !.path = p]
    /\ UNCHANGED <<url_pc, http_url, url_text, url_parsed, url_view>>
    /\ UrlFrame

\* HttpUrlBuilder::fragment
UrlFragment ==
    /\ url_pc = "build"
    /\ \E f \in {U_time} : url_builder' = [url_builder EXCEPT !.fragment = <<f>>]
    /\ UNCHANGED <<url_pc, http_url, url_text, url_parsed, url_view>>
    /\ UrlFrame

\* HttpUrlBuilder::param
UrlParam ==
    /\ url_pc = "build"
    /\ Cardinality(DOMAIN url_builder.query) < MaxCalls
    /\ \E p \in UrlParams :
            url_builder' = [url_builder EXCEPT !.query = Insert(@, p[1], p[2])]
    /\ UNCHANGED <<url_pc, http_url, url_text, url_parsed, url_view>>
    /\ UrlFrame

\* HttpUrlBuilder::build
UrlBuild ==
    /\ url_pc = "build"
    /\ http_url' = url_build(url_builder)
    /\ url_pc' = "built"
    /\ UNCHANGED <<url_builder, url_text, url_parsed, url_view>>
    /\ UrlFrame

\* to_string() of the URL that was built
UrlToString ==
    /\ url_pc = "built"
    /\ \E o \in KeyOrders(http_url.query) : url_text' = to_string(http_url, o)
    /\ url_pc' = "text"
    /\ UNCHANGED <<url_builder, http_url, url_parsed, url_view>>
    /\ UrlFrame

\* HttpUrl::parse of the text
UrlParse ==
    /\ url_pc = "text"
    /\ url_parsed' = url_parse(url_text)
    /\ url_pc' = "parsed"
    /\ UNCHANGED <<url_builder, http_url, url_text, url_view>>
    /\ UrlFrame

\* address() and file() of the URL just built or just parsed
UrlAccess ==
    /\ \/ url_pc = "built" /\ url_view.of = "none"
       \/ url_pc = "parsed" /\ url_parsed.err = "" /\ url_view.of # "parsed"
    /\ LET u == IF url_pc = "built" THEN http_url ELSE url_parsed.url
       IN  url_view' = [of |-> url_pc, address |-> address(u), file |-> file(u)]
    /\ UNCHANGED <<url_pc, url_builder, http_url, url_text, url_parsed>>
    /\ UrlFrame

UrlNext ==
    \/ UrlScheme
    \/ UrlHost
    \/ UrlPort
    \/ UrlPath
    \/ UrlFragment
    \/ UrlParam
    \/ UrlBuild
    \/ UrlToString
    \/ UrlParse
    \/ UrlAccess

UrlSpec == UrlInit /\ [][UrlNext]_vars

-----------------------------------------------------------------------------
(* Status comparisons *)

StatusCodes == {SC_CONTINUE, SC_OK, SC_CREATED, SC_BAD_REQUEST, SC_NOT_FOUND}
\* usize values: the codes, their neighbours, and values that agree with a
\* code in their low 8 or 16 bits
Numbers == {0, 100, 200, 201, 400, 404, 405, 456, 65736, 65940}

\* A StatusCode constant and a usize are at hand
StatusInit ==
    /\ ParserIdle
    /\ UrlIdle
    /\ byte_buffer = ByteBuffer_new(<<>>)
    /\ reads = <<>>
    /\ returned = <<>>
    /\ \E s \in StatusCodes, n \in Numbers :
           compare = [s |-> s, n |-> n, left |-> <<>>, right |-> <<>>]

\* s == n
StatusEqUsize ==
    /\ compare.s # <<>>
    /\ compare.left = <<>>
    /\ compare' = [compare EXCEPT !.left = <<status_eq_usize(compare.s, compare.n)>>]
    /\ UNCHANGED <<msgvars, urlvars, byte_buffer, reads, returned>>

\* n == s
UsizeEqStatus ==
    /\ compare.s # <<>>
    /\ compare.right = <<>>
    /\ compare' = [compare EXCEPT !.right = <<usize_eq_status(compare.n, compare.s)>>]
    /\ UNCHANGED <<msgvars, urlvars, byte_buffer, reads, returned>>

StatusNext == StatusEqUsize \/ UsizeEqStatus

StatusSpec == StatusInit /\ [][StatusNext]_vars

-----------------------------------------------------------------------------
(* Two messages back to back on one parser *)

\* Framed bodies: the header lines, the bytes on the wire and the payload
Framed ==
    {[headers |-> << <<H_CONTENT_LENGTH, <<"3">> >> >>, wire |-> D_abc, body |-> D_abc],
     [headers |-> << <<N_host, <<"a">> >>, <<H_CONTENT_LENGTH, <<"0">> >> >>,
      wire |-> <<>>, body |-> <<>>]}
    \cup {[headers |-> << <<H_TRANSFER_ENCODING, T_chunked>> >>,
           wire |-> ChunksText(cs), body |-> ChunksData(cs)] : cs \in ChunkLists}
FramedMessage(k, f) == Message(k, f.headers, f.wire)

\* A parser over a source that holds two framed messages of one kind, in one
\* read (ByteBuffer) or in one read each (a connection kept open); request()
\* or response() is called.
PipelineInit ==
    /\ \E k \in Kinds, f1 \in Framed, f2 \in Framed, each \in BOOLEAN, eof \in BOOLEAN :
           LET m1 == FramedMessage(k, f1)
               m2 == FramedMessage(k, f2)
               src == IF each THEN <<Piece(m1), Piece(m2)>> ELSE <<Piece(m1 \o m2)>>
           IN  /\ input = m1 \o m2
               /\ source = [src |-> src, eof |-> eof]
               /\ kind = k
               /\ reader = from_reader(src, eof)
               /\ msg = NewMsg(k)
               /\ builder = NewBuilder(k)
    /\ include_data = TRUE
    /\ pc = "start"
    /\ result = "none"
    /\ error = ""
    /\ head = NoHead
    /\ wire = NoWire
    /\ ops = 0
    /\ UrlIdle
    /\ AuxIdle

\* request() / response() is called again on the same parser: the message
\* returned is kept by the caller, the BufReader is as the first call left it
ParseAgain ==
    /\ pc = "done"
    /\ result = "ok"
    /\ returned = <<>>
    /\ returned' = <<msg>>
    /\ Becomes(StartConfig(kind, reader))
    /\ UNCHANGED <<input, source, kind, include_data, wire, ops, builder, urlvars,
                   compare, byte_buffer, reads>>

PipelineNext ==
    \/ ParseStartLine
    \/ ParseHeaderLine
    \/ ParseEndHeaders
    \/ ExtractBody
    \/ ReadChunk
    \/ ParseAgain

PipelineSpec == PipelineInit /\ [][PipelineNext]_vars

-----------------------------------------------------------------------------
(* Reads from a ByteBuffer *)

D_abcde == D_abc \o <<"d","e">>
BufferContents == {<<>>, <<"a">>, D_abc, D_abcde}

\* ByteBuffer::new over some bytes
BufferInit ==
    /\ ParserIdle
    /\ UrlIdle
    /\ compare = NoCompare
    /\ returned = <<>>
    /\ reads = <<>>
    /\ \E buffer \in BufferContents : byte_buffer = ByteBuffer_new(buffer)

\* read(&mut buf) with a destination of any size
ByteBufferRead ==
    /\ Len(reads) < MaxReads
    /\ \E buf_len \in 0..MaxDest :
           LET r == ByteBuffer_read(byte_buffer, buf_len)
           IN  /\ byte_buffer' = r.b
               /\ reads' = Append(reads, [len |-> buf_len, n |-> r.n, data |-> r.data])
    /\ UNCHANGED <<msgvars, urlvars, compare, returned>>

BufferNext == ByteBufferRead

BufferSpec == BufferInit /\ [][BufferNext]_vars

-----------------------------------------------------------------------------
(* Vocabulary of the properties *)

\* The message came from the parser (not from a builder) and is as returned.
Parsed == pc = "done" /\ head # NoHead /\ ops = 0
\* The source answers every read with bytes or end-of-data.
NoIoError == \A i \in 1..Len(source.src) : ~source.src[i].err
\* The source answered one read with an I/O error.
IoErrorReturned ==
    /\ \E i \in 1..Len(source.src) : source.src[i].err
    /\ \A i \in 1..Len(reader.src) : ~reader.src[i].err
\* One read delivers the whole input (ByteBuffer, Cursor).
DeliveredWhole == Len(source.src) <= 1 /\ source.eof

\* Equality of two messages: start-line fields, headers (PartialEq for
\* HttpHeader), body, chunk-index and chunked flag.
SameStart(a, b) ==
    /\ a.kind = b.kind /\ a.method = b.method /\ a.url = b.url
    /\ a.version = b.version /\ a.status_code = b.status_code
    /\ a.status_msg = b.status_msg
SameHeaders(a, b) ==
    /\ Len(a.headers) = Len(b.headers)
    /\ \A i \in 1..Len(a.headers) : HeaderEq(a.headers[i], b.headers[i])
SameMessage(a, b) ==
    /\ SameStart(a, b) /\ SameHeaders(a, b)
    /\ a.body = b.body /\ a.chunks = b.chunks /\ a.chunked = b.chunked

\* Valid HTTP/1.1 messages among the inputs: a start line, `Name: value`
\* header lines, the blank line, and a body framed by Content-Length or by
\* chunks ending in the zero chunk (or no body and no framing header).
ValidFraming ==
    {<< <<>>, <<>> >>, << << <<N_host, <<"a">> >> >>, <<>> >>,
     << << <<H_CONTENT_LENGTH, <<"3">> >> >>, D_abc >>}
    \cup {<< << <<H_TRANSFER_ENCODING, T_chunked>> >>, ChunksText(cs) >> :
            cs \in ChunkLists}
ValidInputs == {Message(k, f[1], f[2]) : k \in Kinds, f \in ValidFraming}

\* The bytes of a message that follow its blank line (the first CRLF CRLF).
AfterBlankLine(s) ==
    LET I == {i \in 1..(Len(s) - 3) : SubSeq(s, i, i + 3) = CRLF \o CRLF}
    IN  IF I = {} THEN <<>> ELSE DropFirst(s, Min(I) + 3)

\* The chunk-index of chunks cs decoded into an empty body.
RECURSIVE Offsets(_, _)
Offsets(cs, at) ==
    IF cs = <<>> THEN <<>>
    ELSE << <<at, at + Len(Head(cs)[2])>> >>
         \o Offsets(Tail(cs), at + Len(Head(cs)[2]))

-----------------------------------------------------------------------------
(* Properties *)

\* C1: for every valid HTTP/1.1 request or response, serializing the parsed
\* message reproduces the input bytes exactly: the parse returns a message
\* and into_bytes of it equals the input.
RoundTripFromBytes ==
    (input \in ValidInputs /\ include_data /\ DeliveredWhole /\ pc = "done")
        => /\ result = "ok"
           /\ (wire.set /\ ops = 0) => (~wire.panic /\ wire.bytes = input)

\* C2: for every message reachable through the builders, put_header,
\* add_data or the parser, parsing into_bytes of it succeeds and returns an
\* equal message.
RoundTripFromMessage ==
    wire.set =>
        /\ ~wire.panic
        /\ LET again == Parse(kind, from_reader(<<Piece(wire.bytes)>>, TRUE), TRUE)
           IN  again.result = "ok" /\ SameMessage(again.msg, msg)

\* C3: when chunked framing is selected and the body is n >= 1 chunks followed
\* by the zero chunk, the parse returns body = the chunk payloads in order,
\* chunked = true and chunk-index = contiguous offsets followed by (0,0).
ChunkedDecoding ==
    (Parsed /\ include_data /\ NoIoError /\ Framing(head.msg) = "chunked") =>
        \A cs \in ChunkLists :
            (cs # <<>> /\ AfterBlankLine(input) = ChunksText(cs))
            => /\ result = "ok"
               /\ msg.body = ChunksData(cs)
               /\ msg.chunked
               /\ msg.chunks = Offsets(cs, 0) \o << <<0, 0>> >>

ChunkedDecodingWitness ==
    /\ Parsed /\ include_data /\ result = "ok" /\ msg.chunked
    /\ Len(msg.chunks) = 3
    /\ \E cs \in ChunkLists : Len(cs) = 2 /\ AfterBlankLine(input) = ChunksText(cs)

\* C4: when Content-Length: N framing is selected and at least N bytes follow
\* the blank line, the body is exactly the first N of them, whatever follows.
ContentLengthExact ==
    (Parsed /\ include_data /\ NoIoError /\ Framing(head.msg) = "length") =>
        \A n \in 0..9 :
            (/\ trim(header(head.msg, H_CONTENT_LENGTH)[1].value) = <<Digits[n + 1]>>
             /\ Len(AfterBlankLine(input)) >= n)
            => /\ result = "ok"
               /\ msg.body = SubSeq(AfterBlankLine(input), 1, n)

ReadToEnd ==
    (/\ Parsed /\ include_data /\ result = "ok" /\ NoIoError /\ source.eof
     /\ Framing(head.msg) = "none")
        => msg.body = head.rest /\ Remaining(reader) = <<>>

\* C7: a head-only parse returns a message with empty body, empty chunk-index
\* and chunked = false whose start line and headers equal those of the full
\* parse of the same input, whenever the full parse succeeds.
HeadOnlyAgrees ==
    (pc = "done" /\ ~include_data /\ ops = 0) =>
        LET full == Parse(kind, from_reader(source.src, source.eof), TRUE)
        IN  full.result = "ok" =>
                /\ result = "ok"
                /\ msg.body = <<>> /\ msg.chunks = <<>> /\ ~msg.chunked
                /\ SameStart(msg, full.msg)
                /\ SameHeaders(msg, full.msg)

HeadOnlyAgreesWitness ==
    /\ pc = "done" /\ ~include_data /\ ops = 0 /\ result = "ok"
    /\ msg.headers # <<>>
    /\ LET full == Parse(kind, from_reader(source.src, source.eof), TRUE)
       IN  full.result = "ok" /\ full.msg.chunked

\* C8: a head-only parse of a start line, header lines and the blank CRLF
\* returns a result and issues no read to the source once the blank line has
\* been delivered, even if the source then stays silent, and however the
\* source splits the bytes into reads.
HeadInputs ==
    {Message(k, hs, <<>>) : k \in Kinds, hs \in {<<>>, << <<N_host, <<"a">> >> >>}}
HeadOnlyReturns ==
    (~include_data /\ input \in HeadInputs /\ NoIoError /\ pc = "done")
        => /\ result \in {"ok", "err"}
           /\ reader.reads <= Len(source.src)

\* C9: parsing is fail-fast in stream order: when an input contains more
\* than one malformed token, the parse returns the error of the first one in
\* the stream (method before version in a request, version before status code
\* in a response, start line before headers and body) and no message.
\* A token is malformed when it is outside the set the specification gives:
\* the nine methods, the four versions, a decimal status code, a decimal
\* Content-Length.
BadLength == HeaderText(<<N_cl_lower, <<"x">> >>) \o CRLF
SpecMethods == {T_GET, T_POST, T_PUT, T_HEAD, T_OPTIONS, T_DELETE, T_TRACE,
                T_PATCH, T_CONNECT}
SpecVersions == {T_HTTP10, T_HTTP11, T_HTTP2, T_HTTP3}
AllDigits(s) == s # <<>> /\ \A i \in 1..Len(s) : IndexOf(Digits, s[i]) > 0
\* The errors of the malformed tokens, in stream order.
Malformed(first, second, third) ==
    (IF first = "" THEN <<>> ELSE <<first>>)
    \o (IF second = "" THEN <<>> ELSE <<second>>)
    \o (IF third = "" THEN <<>> ELSE <<third>>)
FirstError(bad) == Len(bad) >= 2 => (result = "err" /\ error = bad[1])
FailFast ==
    /\ (kind = "request" /\ pc = "done") =>
       \A m \in MethodTokens, v \in VersionTokens, t \in {CRLF, BadLength} :
        (input = RequestStart(m, <<"/">>, v) \o t)
        => FirstError(Malformed(
               IF m \in SpecMethods THEN "" ELSE "method",
               IF v \in SpecVersions THEN "" ELSE "version",
               IF t = BadLength /\ include_data THEN "header" ELSE ""))
    /\ (kind = "response" /\ pc = "done") =>
       \A v \in VersionTokens, c \in StatusTokens, r \in ReasonTexts,
          t \in {CRLF, BadLength} :
        (input = StatusStart(v, c, r) \o t)
        => FirstError(Malformed(
               IF v \in SpecVersions THEN "" ELSE "version",
               IF AllDigits(c) THEN "" ELSE "status",
               IF t = BadLength /\ include_data THEN "header" ELSE ""))

\* C10: if the source returns an I/O error at any point during a parse, the
\* parse returns an error carrying that failure, never Ok with a message.
IoErrorPropagates ==
    (pc = "done" /\ IoErrorReturned) => (result = "err" /\ error = "ioerr")

LengthMustBeDecimal ==
    (Parsed /\ include_data /\ Framing(head.msg) = "length"
     /\ ~AllDigits(header(head.msg, H_CONTENT_LENGTH)[1].value))
        => result = "err"

\* C13: in chunked decoding a chunk-size line that is not a hexadecimal number
\* ends the chunk loop without an error: the parse returns Ok with the body
\* and the chunk-index of the chunks decoded before that line (the index
\* closed by the (0,0) sentinel when it is not empty).
RECURSIVE ChunksOnly(_)
ChunksOnly(cs) ==
    IF cs = <<>> THEN <<>> ELSE ChunkText(Head(cs)) \o ChunksOnly(Tail(cs))
BadSizeEndsLoop ==
    (Parsed /\ include_data /\ NoIoError /\ Framing(head.msg) = "chunked") =>
        \A cs \in ChunkLists, rest \in {<<>>, D_abc} :
            (AfterBlankLine(input) = ChunksOnly(cs) \o BadSizeLine \o rest)
            => /\ result = "ok"
               /\ msg.body = ChunksData(cs)
               /\ msg.chunks = IF cs = <<>> THEN <<>>
                               ELSE Offsets(cs, 0) \o << <<0, 0>> >>
               /\ msg.chunked = (cs # <<>>)

BadSizeEndsLoopWitness ==
    /\ Parsed /\ include_data /\ NoIoError /\ Framing(head.msg) = "chunked"
    /\ AfterBlankLine(input) = ChunkText(<< <<"3">>, D_abc >>) \o BadSizeLine
    /\ result = "ok" /\ msg.body = D_abc /\ Len(msg.chunks) = 2

\* C14: the request parser accepts each of the nine method tokens GET, POST,
\* PUT, HEAD, OPTIONS, DELETE, TRACE, PATCH and CONNECT and returns the
\* variant whose rendered text is that token; every other token is a method
\* error.
NineMethods ==
    (kind = "request" /\ pc = "done" /\ ops = 0) =>
        \A m \in MethodTokens :
            (input = RequestStart(m, <<"/">>, T_HTTP11) \o CRLF)
            => IF m \in SpecMethods
               THEN result = "ok" /\ MethodText(msg.method) = m
               ELSE result = "err" /\ error = "method"

\* C15: the parser accepts the version tokens HTTP/1.0, HTTP/1.1, HTTP/2 and
\* HTTP/3 and returns the HttpVersion variant whose rendered text is that
\* token; every other version token is a version error.
FourVersions ==
    (pc = "done" /\ ops = 0) =>
        /\ \A v \in VersionTokens :
            (kind = "request" /\ input = RequestStart(T_GET, <<"/">>, v) \o CRLF)
            => IF v \in SpecVersions
               THEN result = "ok" /\ VersionText(msg.version) = v
               ELSE result = "err" /\ error = "version"
        /\ \A v \in VersionTokens :
            (kind = "response"
             /\ input = StatusStart(v, <<"2","0","0">>, M_OK) \o CRLF)
            => IF v \in SpecVersions
               THEN result = "ok" /\ VersionText(msg.version) = v
               ELSE result = "err" /\ error = "version"

\* C16 as stated: the response parser takes the second space-delimited token
\* of the status line as a decimal status code; every non-negative decimal
\* integer is accepted with no range validation, a non-numeric token is a
\* status-code error, and the reason phrase is the rest of the line with
\* surrounding whitespace trimmed.
TrimmedReason(r) == IF r = R_spaced THEN M_OK ELSE r
NumberText(c) == IF SkipZeros(c) = <<>> THEN <<"0">> ELSE SkipZeros(c)
Unsigned(c) == IF c # <<>> /\ Head(c) = "+" THEN Tail(c) ELSE c
\* The number written by the digits c is at most usize::MAX.
FitsUsize(c) ==
    \/ Len(SkipZeros(c)) < Len(USIZE_MAX_TEXT)
    \/ /\ Len(SkipZeros(c)) = Len(USIZE_MAX_TEXT)
       /\ \A i \in 1..Len(USIZE_MAX_TEXT) :
            (\A j \in 1..(i - 1) : SkipZeros(c)[j] = USIZE_MAX_TEXT[j])
            => IndexOf(Digits, SkipZeros(c)[i]) <= IndexOf(Digits, USIZE_MAX_TEXT[i])
StatusCodeAnyInteger ==
    (kind = "response" /\ pc = "done" /\ ops = 0) =>
        \A c \in StatusTokens, r \in ReasonTexts :
            (input = StatusStart(T_HTTP11, c, r) \o CRLF)
            => /\ AllDigits(c) =>
                    /\ result = "ok"
                    /\ fmt_decimal(msg.status_code) = NumberText(c)
                    /\ msg.status_msg = TrimmedReason(r)
               /\ (\A i \in 1..Len(c) : IndexOf(Digits, c[i]) = 0) =>
                    (result = "err" /\ error = "status")

\* C16, amended: a token of decimal digits, optionally preceded by '+', whose
\* value fits usize is accepted with no other range validation; every other
\* token, a digit string above usize::MAX included, is a status-code error;
\* the reason phrase is the rest of the line, trimmed.
StatusCodeUsize ==
    (kind = "response" /\ pc = "done" /\ ops = 0) =>
        \A c \in StatusTokens, r \in ReasonTexts :
            (input = StatusStart(T_HTTP11, c, r) \o CRLF)
            => IF AllDigits(Unsigned(c)) /\ FitsUsize(Unsigned(c))
               THEN /\ result = "ok"
                    /\ fmt_decimal(msg.status_code) = NumberText(Unsigned(c))
                    /\ msg.status_msg = TrimmedReason(r)
               ELSE result = "err" /\ error = "status"

StatusCodeUsizeWitness ==
    /\ kind = "response" /\ pc = "done" /\ ops = 0 /\ result = "ok"
    /\ input = StatusStart(T_HTTP11, <<"0","0","7">>, R_spaced) \o CRLF
    /\ msg.status_code = 7 /\ msg.status_msg = M_OK

\* C12, amended: when Content-Length framing is selected and the header value
\* is not a string of decimal digits, optionally preceded by '+', whose value
\* fits usize, the parse returns an error and no message.
LengthMustParse ==
    (Parsed /\ include_data /\ Framing(head.msg) = "length") =>
        LET v == header(head.msg, H_CONTENT_LENGTH)[1].value
        IN  ~(AllDigits(Unsigned(v)) /\ FitsUsize(Unsigned(v)))
                => (result = "err" /\ error = "header")

LengthMustParseWitness ==
    /\ Parsed /\ include_data /\ Framing(head.msg) = "length"
    /\ header(head.msg, H_CONTENT_LENGTH)[1].value = <<"x">>
    /\ AfterBlankLine(input) = D_abc
    /\ result = "err" /\ error = "header"

\* C17: in every message produced by the parser, the builders, put_header,
\* remove_header or add_data, the header list holds at most one entry per
\* case-insensitive name.
OneEntryPerName ==
    result = "ok" =>
        \A i, j \in 1..Len(msg.headers) :
            i # j => to_lowercase(msg.headers[i].name)
                        # to_lowercase(msg.headers[j].name)

\* Names a caller may look a header up by.
LookupNames == {N_host, N_HOST, to_lowercase(N_HOST), <<"X">>, <<"x">>}

\* C18: after put_header(n, v), header(n') returns a header with value v for
\* every n' equal to n ignoring case, and that header equals (n', v) under
\* header equality, which ignores name case and compares the value exactly.
PutThenGet ==
    [][\A h \in PutPool :
        (result = "ok" /\ ops' = ops + 1 /\ msg' = put_header(msg, h[1], h[2]))
            => \A n \in LookupNames :
                 to_lowercase(n) = to_lowercase(h[1])
                    => LET got == header(msg', n)
                       IN  /\ got # <<>>
                           /\ got[1].value = h[2]
                           /\ HeaderEq(got[1], HttpHeader(n, h[2]))
                           /\ ~HeaderEq(got[1], HttpHeader(n, h[2] \o <<SP>>))
      ]_vars

\* put_header("HOST", "c") has replaced the value of a header stored as Host,
\* and a lower-case lookup finds it.
PutThenGetWitness ==
    /\ result = "ok" /\ ops = 1
    /\ \E i \in 1..Len(msg.headers) :
            msg.headers[i] = HttpHeader(N_host, <<"c">>)
    /\ header(msg, to_lowercase(N_HOST)) = <<HttpHeader(N_host, <<"c">>)>>

\* C19: put_header on a message already holding a header of that name
\* (ignoring case) sets the value of the first such entry and leaves the number
\* of headers, their order, that entry's stored name, the body and the
\* chunk-index unchanged; otherwise it appends (n, v) at the end.
PutHeaderInPlace ==
    [][\A h \in PutPool :
        (result = "ok" /\ ops' = ops + 1 /\ msg' = put_header(msg, h[1], h[2]))
            => LET old == msg.headers
                   new == msg'.headers
                   same == {i \in 1..Len(old) :
                              to_lowercase(old[i].name) = to_lowercase(h[1])}
               IN  /\ msg'.body = msg.body
                   /\ msg'.chunks = msg.chunks
                   /\ IF same # {}
                      THEN /\ Len(new) = Len(old)
                           /\ \A i \in 1..Len(old) :
                                /\ new[i].name = old[i].name
                                /\ new[i].value =
                                     IF i = Min(same) THEN h[2]
                                     ELSE old[i].value
                      ELSE new = old \o <<HttpHeader(h[1], h[2])>>]_vars

\* put_header("HOST", "c") on a message holding Host and HOST, in that order,
\* has written the first of the two.
PutHeaderInPlaceWitness ==
    /\ result = "ok" /\ ops = 1
    /\ msg.headers = <<HttpHeader(N_host, <<"c">>),
                       HttpHeader(N_HOST, <<"b">>)>>

\* The wire form the specification gives a message's head: the start line and
\* CRLF, then `name: value` CRLF for every header in list order.
WireStart(m) ==
    IF m.kind = "request"
    THEN MethodText(m.method) \o <<SP>> \o m.url \o <<SP>> \o VersionText(m.version)
    ELSE VersionText(m.version) \o <<SP>> \o fmt_decimal(m.status_code)
         \o <<SP>> \o m.status_msg
RECURSIVE WireLines(_, _)
WireLines(hs, i) ==
    IF i > Len(hs) THEN <<>>
    ELSE hs[i].name \o <<COLON, SP>> \o hs[i].value \o CRLF \o WireLines(hs, i + 1)
WireHead(m) == WireStart(m) \o CRLF \o WireLines(m.headers, 1)

RECURSIVE PairsText(_, _)
PairsText(body, pairs) ==
    IF pairs = <<>> THEN <<"0">> \o CRLF \o CRLF
    ELSE fmt_upper_hex(Head(pairs)[2] - Head(pairs)[1]) \o CRLF
         \o SubSeq(body, Head(pairs)[1] + 1, Head(pairs)[2]) \o CRLF
         \o PairsText(body, Tail(pairs))
WithoutSentinel(pairs) ==
    IF pairs # <<>> /\ pairs[Len(pairs)] = <<0, 0>>
    THEN SubSeq(pairs, 1, Len(pairs) - 1) ELSE pairs

\* C21: for a message whose chunked flag is set, into_bytes emits the body as
\* the chunked form of its chunk-index pairs other than the trailing (0,0),
\* followed by `0` CRLF and a blank CRLF, and these bytes are identical to the
\* chunked stream the message was decoded from.
ChunkedEmission ==
    (wire.set /\ Parsed /\ include_data /\ NoIoError /\ msg.chunked) =>
        \A cs \in ChunkLists :
            (cs # <<>> /\ AfterBlankLine(input) = ChunksText(cs))
            => /\ ~wire.panic
               /\ AfterBlankLine(wire.bytes)
                    = PairsText(msg.body, WithoutSentinel(msg.chunks))
               /\ AfterBlankLine(wire.bytes) = AfterBlankLine(input)

\* C22: in every message returned by a full parse, a head-only parse or a
\* builder, and after put_header, remove_header and add_data in any order, the
\* chunk-index is non-empty if and only if the chunked flag is true.
ChunkIndexIffChunked ==
    result = "ok" => ((msg.chunks # <<>>) <=> msg.chunked)

\* add_data has been applied to a parsed message of one chunk.
ChunkIndexIffChunkedWitness ==
    /\ result = "ok" /\ ops = 1
    /\ msg.chunked /\ Len(msg.chunks) = 3
    /\ msg.body = D_abc \o <<"x", "y">>

\* C23: after a head-only parse returns, no byte beyond the blank line that
\* ends the headers has been taken from the underlying source: the source
\* still holds every byte that follows the blank line.
HeadOnlyLeavesBody ==
    (pc = "done" /\ ~include_data /\ result = "ok" /\ ops = 0 /\ NoIoError)
        => Undelivered(reader.src) = AfterBlankLine(input)

-----------------------------------------------------------------------------
(* Properties of the URL model, checked under UrlSpec *)

\* The URL was built from fields, rendered and parsed back.
BuiltAndParsed == url_pc = "parsed" /\ http_url # NoUrl
\* The texts to_string may give for u, one for each order of the query keys.
Renderings(u) == {to_string(u, o) : o \in KeyOrders(u.query)}

\* C24: for every URL u built from fields with scheme http or https,
\* HttpUrl::parse(u.to_string()) succeeds and returns a URL with the same
\* scheme, host, port, path, query map and fragment as u, so that rendering
\* the parsed URL gives the same text again.
UrlRoundTrip ==
    (/\ BuiltAndParsed /\ http_url.scheme \in {S_http, S_https}
     /\ http_url.host # <<>>) =>
        /\ url_parsed.err = ""
        /\ url_parsed.url.scheme = http_url.scheme
        /\ url_parsed.url.host = http_url.host
        /\ url_parsed.url.port = http_url.port
        /\ url_parsed.url.path = http_url.path
        /\ url_parsed.url.query = http_url.query
        /\ url_parsed.url.fragment = http_url.fragment
        /\ url_text \in Renderings(url_parsed.url)

\* Texts joined by &.
RECURSIVE JoinedByAmp(_)
JoinedByAmp(ts) ==
    IF Len(ts) <= 1 THEN Concat(ts)
    ELSE Head(ts) \o <<"&">> \o JoinedByAmp(Tail(ts))
\* The `key=value` texts of the query map q, joined by & in any order.
QueryTexts(q) ==
    {JoinedByAmp([i \in 1..Len(o) |-> o[i] \o <<"=">> \o q[o[i]]]) :
        o \in KeyOrders(q)}
\* The URL of the test: http, 127.0.0.1, 8080, video.mp4, start=56, time.
ExampleUrl ==
    [scheme |-> S_http, host |-> U_localhost, port |-> <<8080>>,
     path |-> U_video, query |-> Insert(EmptyMap, U_start, <<"5","6">>),
     fragment |-> <<U_time>>]

\* C25: rendering a URL built from fields gives scheme://host, then :port
\* only when a port was supplied, then /path when the path is non-empty, then
\* ? and the key=value pairs joined by & when the query map is non-empty, then
\* #fragment when one is present; the two URLs of the test render as
\* http://127.0.0.1:8080/video.mp4?start=56#time and https://www.google.com.
UrlRendering ==
    (http_url # NoUrl /\ url_pc \in {"text", "parsed"}) =>
        LET u == http_url
            top == u.scheme \o <<":","/","/">> \o u.host
                   \o (IF u.port = <<>> THEN <<>>
                       ELSE <<":">> \o fmt_decimal(u.port[1]))
                   \o (IF u.path = <<>> THEN <<>> ELSE <<"/">> \o u.path)
            end == IF u.fragment = <<>> THEN <<>> ELSE <<"#">> \o u.fragment[1]
        IN  /\ IF DOMAIN u.query = {} THEN url_text = top \o end
               ELSE \E qt \in QueryTexts(u.query) :
                        url_text = top \o <<"?">> \o qt \o end
            /\ u = ExampleUrl => url_text = U_example
            /\ u = [NewUrlBuilder EXCEPT !.scheme = S_https, !.host = U_google]
                  => url_text = <<"h","t","t","p","s",":","/","/","w","w","w",".","g","o","o","g","l","e",".","c","o","m">>

\* The URL of the test, with every part, has been rendered.
UrlRenderingWitness ==
    url_pc = "text" /\ http_url = ExampleUrl /\ url_text = U_example

\* C26: every HttpUrl value, returned by HttpUrl::parse or by
\* HttpUrlBuilder::build, has scheme http or https, and a text with any other
\* explicit scheme:// prefix is rejected with an error.
SchemeHttpOrHttps ==
    /\ http_url # NoUrl => http_url.scheme \in {S_http, S_https}
    /\ url_pc = "parsed" =>
        /\ url_parsed.err = "" => url_parsed.url.scheme \in {S_http, S_https}
        /\ LET pos == FindSub(url_text, <<":","/","/">>)
           IN  (pos > 0 /\ SubSeq(url_text, 1, pos - 1) \notin {S_http, S_https})
                    => url_parsed.err = "scheme"

\* The parts of a URL text as the specification divides it: the path is the
\* text from the first / after the scheme prefix on, the fragment what
\* follows the first # of the path, the query string what lies between the
\* first ? before that # and the #.
TextPath(text) ==
    LET pos == FindSub(text, <<":","/","/">>)
        rest == IF pos > 0 THEN DropFirst(text, pos + 2) ELSE text
        slash == IndexOf(rest, "/")
    IN  IF slash = 0 THEN <<>> ELSE DropFirst(rest, slash - 1)
BeforeFragment(text) ==
    LET p == TextPath(text)
    IN  IF IndexOf(p, "#") = 0 THEN p ELSE SubSeq(p, 1, IndexOf(p, "#") - 1)
HasQuery(text) == IndexOf(BeforeFragment(text), "?") > 0
QueryString(text) ==
    DropFirst(BeforeFragment(text), IndexOf(BeforeFragment(text), "?"))
\* A pair's key is the text before its first =, its value all the text after.
PairKey(kv) == IF IndexOf(kv, "=") = 0 THEN kv ELSE SubSeq(kv, 1, IndexOf(kv, "=") - 1)
PairValue(kv) == IF IndexOf(kv, "=") = 0 THEN <<>> ELSE DropFirst(kv, IndexOf(kv, "="))

\* C27: HttpUrl::parse splits the query string on & and each pair at its first
\* = only: the key is the text before the first =, the value all the text
\* after it, further = included, and a pair without = has the empty value.
QueryPairs ==
    (url_pc = "parsed" /\ url_parsed.err = "" /\ HasQuery(url_text)) =>
        LET kvs == SplitOn(QueryString(url_text), "&")
            query == url_parsed.url.query
        IN  /\ DOMAIN query = {PairKey(kvs[i]) : i \in 1..Len(kvs)}
            /\ \A i \in 1..Len(kvs) :
                    (\A j \in (i + 1)..Len(kvs) : PairKey(kvs[j]) # PairKey(kvs[i]))
                        => query[PairKey(kvs[i])] = PairValue(kvs[i])

\* C28: HttpUrl::parse strips the fragment at the first # of the path before
\* it splits off the query: the fragment is all the text after that #, the
\* query is taken from the text before it only (so a # inside a query value
\* ends the query and starts the fragment), and a ? that occurs only after
\* the first # is no query separator: the query map stays empty.
FragmentBeforeQuery ==
    (url_pc = "parsed" /\ url_parsed.err = "") =>
        LET p == TextPath(url_text)
            u == url_parsed.url
        IN  /\ u.fragment = IF IndexOf(p, "#") = 0 THEN <<>>
                            ELSE <<DropFirst(p, IndexOf(p, "#"))>>
            /\ \A k \in DOMAIN u.query :
                    IndexOf(k, "#") = 0 /\ IndexOf(u.query[k], "#") = 0
            /\ IF HasQuery(url_text)
               THEN LET kvs == SplitOn(QueryString(url_text), "&")
                    IN  DOMAIN u.query = {PairKey(kvs[i]) : i \in 1..Len(kvs)}
               ELSE DOMAIN u.query = {}

\* A text whose only ? follows its first # has been parsed.
FragmentBeforeQueryWitness ==
    /\ url_pc = "parsed" /\ url_parsed.err = ""
    /\ url_text = <<"h","/","p","#","f","?","a","=","1">>
    /\ url_parsed.url.fragment = <<<<"f","?","a","=","1">>>>
    /\ DOMAIN url_parsed.url.query = {}

\* The URL whose address() and file() were taken last.
Viewed == IF url_view.of = "built" THEN http_url ELSE url_parsed.url
\* A path with any query (?...) and fragment (#...) text removed.
WithoutMarkers(p) ==
    LET I == {i \in 1..Len(p) : p[i] \in {"?", "#"}}
    IN  IF I = {} THEN p ELSE SubSeq(p, 1, Min(I) - 1)
\* The last /-separated segment of p.
LastSegment(p) ==
    LET I == {i \in 1..Len(p) : p[i] = "/"}
    IN  IF I = {} THEN p ELSE DropFirst(p, Max(I))

\* C29: file() returns a value only when the path contains a dot and does not
\* end in /; the value is then the last /-separated segment of the path with
\* any query and fragment text removed, video.mp4 for the URL parsed from
\* http://127.0.0.1:8080/video.mp4?start=56#time.
FileOfPath ==
    url_view.of \in {"built", "parsed"} =>
        LET p == WithoutMarkers(Viewed.path)
            named == IndexOf(p, ".") > 0 /\ p[Len(p)] # "/"
        IN  /\ url_view.file = IF named THEN <<LastSegment(p)>> ELSE <<>>
            /\ (url_view.of = "parsed" /\ url_text = U_example)
                    => url_view.file = <<U_video>>

\* C30: address() returns host:port with the explicit port when one was
\* supplied, and otherwise host:80 for scheme http and host:443 for scheme
\* https.
AddressPort ==
    url_view.of \in {"built", "parsed"} =>
        LET u == Viewed
        IN  /\ u.port # <<>>
                => url_view.address = u.host \o <<":">> \o fmt_decimal(u.port[1])
            /\ (u.port = <<>> /\ u.scheme = S_http)
                => url_view.address = u.host \o <<":","8","0">>
            /\ (u.port = <<>> /\ u.scheme = S_https)
                => url_view.address = u.host \o <<":","4","4","3">>

\* address() of the test's URL, built with port 8080, has been taken.
AddressPortWitness ==
    /\ url_view.of = "built" /\ http_url = ExampleUrl
    /\ url_view.address = <<"1","2","7",".","0",".","0",".","1",":","8","0","8","0">>

-----------------------------------------------------------------------------
(* Properties of the header loop and of add_data *)

\* The length of the longest prefix of s whose bytes are all in f.
MatchingPrefix(s, f) ==
    LET N == {i \in 1..Len(s) : s[i] \notin f}
    IN  IF N = {} THEN Len(s) ELSE Min(N) - 1

\* C37: skip-while(predicate) consumes exactly the longest prefix of the
\* remaining input whose bytes all satisfy the predicate, leaves the first
\* non-matching byte unread, and returns the number of bytes it consumed,
\* including when every currently buffered byte satisfies the predicate.
\* Stated of the call the header loop makes after the colon of a header line.
SkipWhileLongestPrefix ==
    pc = "headers" =>
        LET e == is_line_end(reader)
            n == read_until(e.r, COLON)
            s == skip_matching(n.r, Whitespace)
            before == Remaining(n.r)
            k == MatchingPrefix(before, Whitespace)
        IN  (e.st = "ok" /\ ~e.val /\ n.st = "ok" /\ s.st = "ok")
                => /\ s.n = k
                   /\ Remaining(s.r) = DropFirst(before, k)

\* The headers that header lines hs, written `name: value CRLF`, stand for.
HeadersOf(hs) == [i \in 1..Len(hs) |-> HttpHeader(hs[i][1], hs[i][2])]
\* The header lines of the inputs: any name, a value or none.
LinePool == ShapePool \cup FramingPool

\* C32: in the header phase each header line `Name:` optional-whitespace
\* `value` CRLF yields exactly one header, in arrival order, whose name is the
\* text before the line's first colon and whose value is the rest of that
\* same line after the skipped leading whitespace, without the CR LF (the
\* empty string when nothing follows the colon); the loop stops at the first
\* bare CRLF line and consumes exactly that line, so the body starts at the
\* first byte after it.
HeaderLinesInOrder ==
    (pc \in {"body", "chunks", "done"} /\ ops = 0 /\ DeliveredWhole) =>
        \A hs \in SeqsUpTo(LinePool, MaxHeaders) :
            (\E b \in Bodies : input = Message(kind, hs, b))
            => /\ head # NoHead
               /\ head.msg.headers = HeadersOf(hs)
               /\ head.rest = AfterBlankLine(input)

\* C33: for every finite input byte sequence (including truncated input, a
\* header line without a colon, a header line with nothing after the colon,
\* or a header line ending in bare LF or in end-of-data), request(),
\* response() and the head-only variants terminate with either Ok(message)
\* or Err: no slice bound or length subtraction in the header loop
\* (name_len - 1, value_len - 2) ever goes out of range.
ReturnsOkOrErr ==
    (pc = "done" /\ DeliveredWhole /\ NoIoError) => result \in {"ok", "err"}

\* C34: the result of a parse depends only on the byte sequence, not on how
\* the source splits it into reads: a delivery of the bytes in two pieces
\* returns the same message or the same error as their delivery in one piece.
DeliveryIndependent ==
    (pc = "done" /\ ops = 0 /\ Len(source.src) = 2 /\ NoIoError /\ source.eof) =>
        LET whole == Parse(kind, from_reader(<<Piece(input)>>, TRUE), include_data)
        IN  /\ result = whole.result
            /\ error = whole.error
            /\ (result = "ok") => SameMessage(msg, whole.msg)

\* C35: add_data on a message whose chunked flag is set appends the data to
\* the body, appends to the chunk-index the pair (previous_len, previous_len +
\* len(data)) and sets Transfer-Encoding to chunked, so that after any
\* sequence of parse and add_data operations every chunk-index pair satisfies
\* start <= end <= body length and into_bytes computes end - start and
\* body[start..end] without going out of range.
AddDataChunked ==
    [][/\ (AddData /\ msg.chunked) =>
              LET te == header(msg', H_TRANSFER_ENCODING)
              IN  /\ msg'.body = msg.body \o <<"x", "y">>
                  /\ msg'.chunks
                        = Append(msg.chunks, <<Len(msg.body), Len(msg.body) + 2>>)
                  /\ te # <<>> /\ te[1].value = T_chunked
       /\ \A i \in 1..Len(msg'.chunks) : ChunkInRange(msg'.body, msg'.chunks[i])
       /\ IntoBytes => ~wire'.panic
    ]_vars

\* The positions of the headers of m named name, whatever the case.
Entries(m, name) ==
    {i \in 1..Len(m.headers) : to_lowercase(m.headers[i].name) = to_lowercase(name)}
\* The headers of m not named name, in order.
OtherHeaders(m, name) ==
    SelectSeq(m.headers, LAMBDA h : to_lowercase(h.name) # to_lowercase(name))

\* C36: for a message whose chunked flag is not set, after any sequence of
\* add_data calls the body is its previous content followed by the data of
\* every call in call order, the header list has exactly one Content-Length
\* entry whose value is the decimal body length, and the start-line fields,
\* the other headers and the (empty) chunk-index are unchanged.
AddDataPlain ==
    [][(AddData /\ ~msg.chunked) =>
          /\ msg'.body = msg.body \o <<"x", "y">>
          /\ Cardinality(Entries(msg', H_CONTENT_LENGTH)) = 1
          /\ \A i \in Entries(msg', H_CONTENT_LENGTH) :
                 msg'.headers[i].value = fmt_decimal(Len(msg'.body))
          /\ SameStart(msg', msg)
          /\ OtherHeaders(msg', H_CONTENT_LENGTH) = OtherHeaders(msg, H_CONTENT_LENGTH)
          /\ msg'.chunks = <<>> /\ msg.chunks = <<>> /\ ~msg'.chunked
    ]_vars

-----------------------------------------------------------------------------
(* Properties of repeated parse calls, checked under PipelineSpec *)

\* The message returned is the one written as FramedMessage(kind, f).
Returns(m, f) ==
    /\ SameStart(m, Parse(kind, from_reader(<<Piece(GoodStart(kind) \o CRLF)>>, TRUE),
                          TRUE).msg)
    /\ m.headers = HeadersOf(f.headers)
    /\ m.body = f.body
    /\ m.chunked = (f.body # <<>> /\ Framing(m) = "chunked")

-----------------------------------------------------------------------------
(* Properties of the status comparisons, checked under StatusSpec *)

\* C31: for every StatusCode s and integer n, s == n and n == s give the same
\* result, which is true exactly when n is the numeric code of s; in
\* particular StatusCode::OK == 200 and 200 == StatusCode::OK both hold.
StatusSymmetry ==
    /\ (compare.left # <<>>) => (compare.left[1] <=> (compare.n = compare.s[1]))
    /\ (compare.right # <<>>) => (compare.right[1] <=> (compare.n = compare.s[1]))
    /\ (compare.left # <<>> /\ compare.right # <<>>)
           => (compare.left[1] <=> compare.right[1])
    /\ (compare.s = SC_OK /\ compare.n = 200)
           => /\ (compare.left # <<>>) => compare.left[1]
              /\ (compare.right # <<>>) => compare.right[1]

\* Both comparisons of StatusCode::OK with 200 have been made.
StatusSymmetryWitness ==
    /\ compare.s = SC_OK /\ compare.n = 200
    /\ compare.left = <<TRUE>> /\ compare.right = <<TRUE>>

-----------------------------------------------------------------------------
(* Properties of the ByteBuffer, checked under BufferSpec *)

\* The count of bytes the first i read calls returned.
RECURSIVE Taken(_)
Taken(i) == IF i = 0 THEN 0 ELSE Taken(i - 1) + reads[i].n
\* The bytes the first i read calls returned, in call order.
RECURSIVE TakenBytes(_)
TakenBytes(i) == IF i = 0 THEN <<>> ELSE TakenBytes(i - 1) \o reads[i].data

\* C39: for any sequence of read calls with arbitrary destination sizes on a
\* ByteBuffer, each call returns min(requested, remaining) bytes, the bytes
\* returned across calls are the buffer's contents in order with none skipped
\* or repeated, the index never exceeds the content length, and once the
\* contents are exhausted every later read returns 0.
ByteBufferReads ==
    LET inner_len == Len(byte_buffer.inner)
    IN  /\ \A i \in 1..Len(reads) :
               /\ reads[i].n = Min({reads[i].len, inner_len - Taken(i - 1)})
               /\ Len(reads[i].data) = reads[i].n
               /\ (Taken(i - 1) = inner_len) => (reads[i].n = 0)
        /\ TakenBytes(Len(reads)) = SubSeq(byte_buffer.inner, 1, byte_buffer.index)
        /\ byte_buffer.index = Taken(Len(reads))
        /\ byte_buffer.index <= inner_len

\* Three reads of three bytes from five: a full read, the leftover, nothing.
ByteBufferReadsWitness ==
    /\ byte_buffer.inner = D_abcde
    /\ Len(reads) = 3
    /\ \A i \in 1..3 : reads[i].len = 3
    /\ reads[1].n = 3 /\ reads[2].n = 2 /\ reads[3].n = 0

====
